---- MODULE Spec2Model ----
(***************************************************************************)
(* Booking ledger of the flight booking API (backend/backend.py) over its  *)
(* SQLite store (backend/db_config.py), with the refund policy             *)
(* (backend/utils.py) and the pricing engine (backend/pricing_engine.py).  *)
(*                                                                         *)
(* Every request opens its own connection.  A connection's writes stay in  *)
(* its private working copy tx[p] until COMMIT; db is the committed store. *)
(* BEGIN IMMEDIATE takes SQLite's database-wide write lock; a connection   *)
(* that finds it taken waits (sqlite3.connect's default busy timeout) and  *)
(* then raises "database is locked".  Requests interleave at statement     *)
(* boundaries.  The read-only handlers (search, flight details, pricing)   *)
(* open no transaction: each of their SELECTs reads the committed store.   *)
(*                                                                         *)
(* Units: money is in cents, multipliers are in twentieths (1.0 = 20),     *)
(* time is in hours.  Timestamps columns (booking_date, transaction_date,  *)
(* performed_at), user_id and pnr carry no control flow and are left out.  *)
(* round() is modelled on exact rationals (half to even).                  *)
(***************************************************************************)
EXTENDS Integers, Sequences, FiniteSets, TLC

\* ------------------------------------------------------------------ bounds
NumProcs == 2
MaxSeatsCount == 2
MaxBookingId == 2
MaxProbeHours == 110
TicksPerHour == 2

Procs == 1..NumProcs
Instants == {0, 90}

\* ------------------------------------------------------------ catalog data
FlightIds == {1, 2, 4, 5, 6, 7}
ReqFlightIds == {1, 2, 3}
ReqSeatClasses == {"Economy", "Business"}
Rows == {<<1, "Economy">>, <<1, "Business">>, <<2, "Economy">>}

\* a row of Flights; departure_time and arrival_time in hours since
\* 2025-01-01 00:00:00 (their lexicographic order as "%Y-%m-%d %H:%M:%S"
\* strings is their order as numbers)
Flight(origin, destination, departure_time, arrival_time, base_price, total_seats) ==
  [origin |-> origin, destination |-> destination,
   departure_time |-> departure_time, arrival_time |-> arrival_time,
   base_price |-> base_price, total_seats |-> total_seats]

\* the departure_time of a row whose text is no "%Y-%m-%d %H:%M:%S" timestamp
NoTimestamp == 0 - 1

\* flights 1, 4 and 5 leave DEL for BOM on 2025-01-05 and flight 2 the day
\* before; flight 6 flies back and was entered with total_seats 0; flight 7
\* was entered with a departure_time that is no timestamp (no request drawn
\* books or prices it); no flight 3
Flights ==
  [f \in FlightIds |->
     IF f = 1 THEN Flight("DEL", "BOM", 100, 102, 100, 3)
     ELSE IF f = 2 THEN Flight("DEL", "BOM", 91, 94, 80, 1)
     ELSE IF f = 4 THEN Flight("DEL", "BOM", 98, 100, 100, 2)
     ELSE IF f = 5 THEN Flight("DEL", "BOM", 99, 103, 80, 4)
     ELSE IF f = 6 THEN Flight("BOM", "DEL", 100, 102, 100, 0)
     ELSE Flight("BOM", "DEL", NoTimestamp, 102, 100, 1)]

SeatRow(initial, available, multiplier) ==
  [initial_inventory |-> initial, available_seats |-> available,
   price_multiplier |-> multiplier]

\* --------------------------------------------------------- pure functions
Min(a, b) == IF a <= b THEN a ELSE b

\* round(n / d) to the nearest integer, ties to even (n >= 0, d > 0)
RoundHalfEven(n, d) ==
  LET q == n \div d
      r == n % d
  IN  IF 2 * r < d THEN q
      ELSE IF 2 * r > d THEN q + 1
      ELSE IF q % 2 = 0 THEN q ELSE q + 1

\* (mutant: exactly 72 hours already earn the full refund)
calculate_refund_percentage_AtLeast72(num, den) ==
  IF num >= 72 * den THEN 100
  ELSE IF num >= 24 * den THEN 75
  ELSE IF num >= 2 * den THEN 50
  ELSE 0

\* (mutant: the 75% band starts at 48 hours)
calculate_refund_percentage_From48(num, den) ==
  IF num > 72 * den THEN 100
  ELSE IF num >= 48 * den THEN 75
  ELSE IF num >= 2 * den THEN 50
  ELSE 0

\* (mutant: the 75% and 50% bands change places)
calculate_refund_percentage_Swapped(num, den) ==
  IF num > 72 * den THEN 100
  ELSE IF num >= 24 * den THEN 50
  ELSE IF num >= 2 * den THEN 75
  ELSE 0

\* hours_until_departure is the fraction num / den (den > 0)
calculate_refund_percentage(num, den) ==
  IF num > 72 * den THEN 100
  ELSE IF num >= 24 * den THEN 75
  ELSE IF num >= 2 * den THEN 50
  ELSE 0

\* (mutant: the whole price is refunded)
RefundAmount_Full(final_price, refund_percentage) == final_price

\* round((final_price * refund_percentage) / 100, 2), in cents
RefundAmount(final_price, refund_percentage) ==
  RoundHalfEven(final_price * refund_percentage, 100)

\* (mutant: the 1.35 band starts at a ratio of 0.7)
calculate_occupancy_multiplier_From70(sold, total) ==
  IF 10 * sold >= 8 * total THEN 30
  ELSE IF 10 * sold >= 7 * total THEN 27
  ELSE IF 10 * sold >= 4 * total THEN 23
  ELSE 20

\* occupancy_ratio = sold / total, compared without division
calculate_occupancy_multiplier(sold, total) ==
  IF 10 * sold >= 8 * total THEN 30
  ELSE IF 10 * sold >= 6 * total THEN 27
  ELSE IF 10 * sold >= 4 * total THEN 23
  ELSE 20

\* (mutant: a departure already in the past is priced as a distant one)
calculate_time_multiplier_PastCheap(hours_until_departure) ==
  IF hours_until_departure < 0 THEN 20
  ELSE IF hours_until_departure <= 24 THEN 40
  ELSE IF hours_until_departure <= 72 THEN 36
  ELSE IF hours_until_departure <= 168 THEN 30
  ELSE IF hours_until_departure <= 336 THEN 25
  ELSE IF hours_until_departure <= 720 THEN 22
  ELSE 20

\* days_until_departure = hours_until_departure / 24
calculate_time_multiplier(hours_until_departure) ==
  IF hours_until_departure <= 24 THEN 40
  ELSE IF hours_until_departure <= 72 THEN 36
  ELSE IF hours_until_departure <= 168 THEN 30
  ELSE IF hours_until_departure <= 336 THEN 25
  ELSE IF hours_until_departure <= 720 THEN 22
  ELSE 20

\* demand_level.lower(), on the spellings drawn
Lower(level) ==
  IF level = "HIGH" THEN "high"
  ELSE IF level = "Low" THEN "low"
  ELSE level

calculate_demand_multiplier(demand_level) ==
  IF Lower(demand_level) = "high" THEN 28
  ELSE IF Lower(demand_level) = "low" THEN 16
  ELSE 20

\* (mutant: the demand multiplier is left out of the product)
calculate_dynamic_price_NoDemand(base_price, multiplier, available_seats, total_seats, hours, demand_level) ==
  RoundHalfEven(base_price * multiplier
                  * calculate_occupancy_multiplier(total_seats - available_seats, total_seats)
                  * calculate_time_multiplier(hours) * 20,
                1600)

\* price in cents; base_price in whole currency units; total_seats > 0
calculate_dynamic_price(base_price, multiplier, available_seats, total_seats, hours, demand_level) ==
  RoundHalfEven(base_price * multiplier
                  * calculate_occupancy_multiplier(total_seats - available_seats, total_seats)
                  * calculate_time_multiplier(hours)
                  * calculate_demand_multiplier(demand_level),
                1600)

\* ------------------------------------------------------------------ state
\* db      committed store          tx      working copy of each connection
\* lock    holder of the write lock (0: free)
\* pc, req, loc, result   each request's position, arguments, locals, response
\* now     wall clock               db0     the store as it was initially
\* probe   argument and value of a pure function applied on its own
VARIABLES db, tx, lock, pc, req, loc, result, now, db0, probe

vars == <<db, tx, lock, pc, req, loc, result, now, db0, probe>>

NoTx == [seats |-> <<>>, bookings |-> <<>>, passengers |-> <<>>,
         transactions |-> <<>>, history |-> <<>>]

NoReq == [op |-> "none", flight_id |-> 0, seat_class |-> "", seats_count |-> 0,
          passengers |-> 0, booking_id |-> 0]

NoLoc == [available_seats |-> 0, price_multiplier |-> 0, price_per_seat |-> 0,
          total_price |-> 0, booking_id |-> 0, i |-> 0, flight_id |-> 0,
          seat_class |-> "", seats_booked |-> 0, final_price |-> 0,
          refund_percentage |-> 0, refund_amount |-> 0, new_available |-> 0]

NoResult == [status |-> 0, detail |-> "", booking_id |-> 0,
             refund_percentage |-> 0, refund_amount |-> 0]

NoProbe == [num |-> 0, den |-> 1, value |-> 0]

\* the body of POST /api/bookings: passengers is the length of the list sent,
\* 0 when the field is absent (None, which the validator turns into the empty
\* list; an explicit empty list is not drawn)
CreateRequest(f, c, n, k) ==
  [op |-> "create", flight_id |-> f, seat_class |-> c, seats_count |-> n,
   passengers |-> k, booking_id |-> 0]

\* seats_count: int = Field(1, ge=1, le=9)
MinSeatsPerBooking == 1
MaxSeatsPerBooking == 9

ValidSeatClasses == {"Economy", "Business", "First"}

\* the bodies drawn: every size on flight 1's Economy row, without passengers,
\* with one per seat and with one too many; a one-seat booking on every flight
\* and class; and bodies with a seat count below and above the limits or a seat
\* class that is not one
CreateRequests ==
  {CreateRequest(1, "Economy", n, 0) : n \in 1..MaxSeatsCount}
    \cup {CreateRequest(1, "Economy", n, n) : n \in 1..MaxSeatsCount}
    \cup {CreateRequest(1, "Economy", 1, 2)}
    \cup {CreateRequest(f, c, 1, 1) : f \in ReqFlightIds, c \in ReqSeatClasses}
    \cup {CreateRequest(1, "Economy", n, 0) :
            n \in {MinSeatsPerBooking - 1, MaxSeatsPerBooking + 1}}
    \cup {CreateRequest(1, "Premium", 1, 1)}

\* (mutant: no upper limit on seats_count)
BookingRequestValid_NoUpperLimit(r) ==
  /\ r.seats_count >= MinSeatsPerBooking
  /\ r.seat_class \in ValidSeatClasses
  /\ r.passengers = 0 \/ r.passengers = r.seats_count

\* BookingRequest: the Field constraints, validate_seat_class and
\* validate_passengers
BookingRequestValid(r) ==
  /\ r.seats_count >= MinSeatsPerBooking
  /\ r.seats_count <= MaxSeatsPerBooking
  /\ r.seat_class \in ValidSeatClasses
  /\ r.passengers = 0 \/ r.passengers = r.seats_count

ValidCreateRequests == {r \in CreateRequests : BookingRequestValid(r)}

InvalidCreateRequests == {r \in CreateRequests : ~BookingRequestValid(r)}

CancelRequest(b) ==
  [op |-> "cancel", flight_id |-> 0, seat_class |-> "", seats_count |-> 0,
   passengers |-> 0, booking_id |-> b]

CancelRequests == {CancelRequest(b) : b \in 1..MaxBookingId}

\* ------------------------------------------------------------ initial store
LegacyBooking(status) ==
  [flight_id |-> 1, seat_class |-> "Economy", seats_booked |-> 2,
   final_price |-> 30000, status |-> status]

EmptyStore(available) ==
  [seats |-> [r \in Rows |->
                IF r = <<1, "Economy">> THEN SeatRow(2, available, 20)
                ELSE IF r = <<1, "Business">> THEN SeatRow(1, 1, 30)
                ELSE SeatRow(1, 1, 20)],
   bookings |-> <<>>, passengers |-> <<>>, transactions |-> <<>>,
   history |-> <<>>]

\* a store that already holds one booking made earlier, Confirmed or Cancelled
LegacyStore(available, status) ==
  [EmptyStore(available) EXCEPT
     !.bookings = <<LegacyBooking(status)>>,
     !.passengers = <<[booking_id |-> 1], [booking_id |-> 1]>>,
     !.transactions =
        IF status = "Cancelled"
        THEN <<[booking_id |-> 1, amount |-> 30000, payment_method |-> "Credit Card"],
               [booking_id |-> 1, amount |-> -30000, payment_method |-> "REFUND"]>>
        ELSE <<[booking_id |-> 1, amount |-> 30000, payment_method |-> "Credit Card"]>>,
     !.history =
        IF status = "Cancelled"
        THEN <<[booking_id |-> 1, action |-> "CREATED"],
               [booking_id |-> 1, action |-> "CANCELLED",
                refund_percentage |-> 100, refund_amount |-> 30000]>>
        ELSE <<[booking_id |-> 1, action |-> "CREATED"]>>]

\* a store whose one Confirmed booking names a flight or a seat class that has
\* no row (Flights and Seats are maintained outside these handlers, and the
\* connection does not turn foreign-key enforcement on)
OrphanStore(f, c) ==
  [EmptyStore(2) EXCEPT
     !.bookings = <<[flight_id |-> f, seat_class |-> c, seats_booked |-> 1,
                     final_price |-> 10000, status |-> "Confirmed"]>>,
     !.passengers = <<[booking_id |-> 1]>>,
     !.transactions =
        <<[booking_id |-> 1, amount |-> 10000, payment_method |-> "Credit Card"]>>,
     !.history = <<[booking_id |-> 1, action |-> "CREATED"]>>]

\* the stores a run starts from: no booking yet and any number of free Economy
\* seats on flight 1; or an earlier two-seat booking there, Confirmed (its seats
\* taken, or the inventory out of step with it) or Cancelled
InitialStores ==
  {EmptyStore(a) : a \in 0..2}
    \cup {LegacyStore(a, "Confirmed") : a \in 0..1}
    \cup {LegacyStore(2, "Cancelled")}

\* stores with a booking whose flight (3) or seat-class row (flight 2,
\* Business) is missing
OrphanStores == {OrphanStore(3, "Economy"), OrphanStore(2, "Business")}

Init ==
  /\ db \in InitialStores
  /\ db0 = db
  /\ tx = [p \in Procs |-> NoTx]
  /\ lock = 0
  /\ pc = [p \in Procs |-> "idle"]
  /\ req = [p \in Procs |-> NoReq]
  /\ loc = [p \in Procs |-> NoLoc]
  /\ result = [p \in Procs |-> NoResult]
  /\ now \in Instants
  /\ probe = NoProbe

\* ---------------------------------------------------------- shared pieces
Row(f, c) == <<f, c>>

Go(p, label) == pc' = [pc EXCEPT ![p] = label]

\* (mutant: the writes issued so far reach the store, as in autocommit mode)
Rollback_KeepsWrites(p) ==
  /\ db' = IF lock = p THEN tx[p] ELSE db
  /\ tx' = [tx EXCEPT ![p] = NoTx]
  /\ lock' = IF lock = p THEN 0 ELSE lock

\* conn.rollback() / conn.close(): the working copy is dropped and the
\* write lock, if this connection holds it, is released
Rollback(p) ==
  /\ db' = db
  /\ tx' = [tx EXCEPT ![p] = NoTx]
  /\ lock' = IF lock = p THEN 0 ELSE lock

\* the handler returns or raises: HTTP status and body
Respond(p, status, detail, booking_id, percentage, amount) ==
  /\ Go(p, "done")
  /\ result' = [result EXCEPT ![p] =
                  [status |-> status, detail |-> detail, booking_id |-> booking_id,
                   refund_percentage |-> percentage, refund_amount |-> amount]]
  /\ loc' = [loc EXCEPT ![p] = NoLoc]

\* raise HTTPException(status) -> except HTTPException: rollback; raise
Raise(p, status, detail) ==
  /\ Rollback(p)
  /\ Respond(p, status, detail, 0, 0, 0)
  /\ UNCHANGED <<req, now, db0, probe>>

Requests == ValidCreateRequests \cup CancelRequests

\* a request arrives and its handler opens a connection; each connection serves
\* one request, and connections are numbered in their order of arrival.  Nothing
\* reads the request's arguments before BEGIN IMMEDIATE returns, and they are
\* drawn there.
Start(p) ==
  /\ pc[p] = "idle"
  /\ \A q \in Procs : q < p => pc[q] # "idle"
  /\ Go(p, "begin")
  /\ UNCHANGED <<db, tx, lock, req, loc, result, now, db0, probe>>

\* the body fails BookingRequest's validation: FastAPI answers 422 and the
\* handler is not called
Reject(p) ==
  /\ pc[p] = "idle"
  /\ \A q \in Procs : q < p => pc[q] # "idle"
  /\ \E r \in InvalidCreateRequests : req' = [req EXCEPT ![p] = r]
  /\ Respond(p, 422, "validation error", 0, 0, 0)
  /\ UNCHANGED <<db, tx, lock, now, db0, probe>>

\* (mutant: BEGIN takes no write lock)
Begin_NoLock(p) ==
  /\ pc[p] = "begin"
  /\ lock' = p
  /\ tx' = [tx EXCEPT ![p] = db]
  /\ \E r \in Requests :
       /\ req' = [req EXCEPT ![p] = r]
       /\ Go(p, IF r.op = "create" THEN "c_flight" ELSE "x_booking")
  /\ UNCHANGED <<db, loc, result, now, db0, probe>>

\* (mutant: the lock is per (flight_id, seat_class) row: a booking begins while
\* a booking of another row holds the lock)
Begin_RowLock(p) ==
  /\ pc[p] = "begin"
  /\ lock' = p
  /\ tx' = [tx EXCEPT ![p] = db]
  /\ \E r \in Requests :
       /\ \/ lock = 0
          \/ /\ lock # 0
             /\ r.op = "create" /\ req[lock].op = "create"
             /\ Row(r.flight_id, r.seat_class)
                  # Row(req[lock].flight_id, req[lock].seat_class)
       /\ req' = [req EXCEPT ![p] = r]
       /\ Go(p, IF r.op = "create" THEN "c_flight" ELSE "x_booking")
  /\ UNCHANGED <<db, loc, result, now, db0, probe>>

\* cursor.execute("BEGIN IMMEDIATE"), write lock free
Begin(p) ==
  /\ pc[p] = "begin"
  /\ lock = 0
  /\ lock' = p
  /\ tx' = [tx EXCEPT ![p] = db]
  /\ \E r \in Requests :
       /\ req' = [req EXCEPT ![p] = r]
       /\ Go(p, IF r.op = "create" THEN "c_flight" ELSE "x_booking")
  /\ UNCHANGED <<db, loc, result, now, db0, probe>>

\* (mutant: on the timeout the handler goes on without the write lock)
BeginBusy_Deferred(p) ==
  /\ pc[p] = "begin"
  /\ lock # 0
  /\ lock # p
  /\ tx' = [tx EXCEPT ![p] = db]
  /\ \E r \in Requests :
       /\ req' = [req EXCEPT ![p] = r]
       /\ Go(p, IF r.op = "create" THEN "c_flight" ELSE "x_booking")
  /\ UNCHANGED <<db, lock, loc, result, now, db0, probe>>

\* the requests drawn for a connection that never gets the lock: nothing reads
\* its arguments, so one booking on each of two rows and one cancellation
\* stand for all
WaitingRequests ==
  {CreateRequest(1, c, 1, 1) : c \in ReqSeatClasses} \cup {CancelRequest(1)}

\* cursor.execute("BEGIN IMMEDIATE"), write lock held by another connection
\* for the whole busy timeout: sqlite3.OperationalError -> except Exception
BeginBusy(p) ==
  /\ pc[p] = "begin"
  /\ lock # 0
  /\ lock # p
  /\ \E r \in WaitingRequests : req' = [req EXCEPT ![p] = r]
  /\ Rollback(p)
  /\ Respond(p, 500, "database is locked", 0, 0, 0)
  /\ UNCHANGED <<now, db0, probe>>

\* ---------------------------------------------------------- create_booking
\* (mutant: the flight is not looked up)
CreateSelectFlight_Skip(p) ==
  /\ pc[p] = "c_flight"
  /\ Go(p, "c_seat")
  /\ UNCHANGED <<db, tx, lock, req, loc, result, now, db0, probe>>

CreateSelectFlight(p) ==
  /\ pc[p] = "c_flight"
  /\ IF req[p].flight_id \in FlightIds
     THEN /\ Go(p, "c_seat")
          /\ UNCHANGED <<db, tx, lock, req, loc, result, now, db0, probe>>
     ELSE Raise(p, 404, "Flight not found")

\* (mutant: available_seats is the value the store had when the run began, as
\* a search made earlier would have shown it)
CreateSelectSeat_Stale(p) ==
  /\ pc[p] = "c_seat"
  /\ LET r == Row(req[p].flight_id, req[p].seat_class) IN
     IF r \in DOMAIN tx[p].seats
     THEN /\ loc' = [loc EXCEPT ![p].available_seats = db0.seats[r].available_seats,
                                ![p].price_multiplier = tx[p].seats[r].price_multiplier]
          /\ Go(p, "c_check")
          /\ UNCHANGED <<db, tx, lock, req, result, now, db0, probe>>
     ELSE Raise(p, 404, "Seat class not available")

CreateSelectSeat(p) ==
  /\ pc[p] = "c_seat"
  /\ LET r == Row(req[p].flight_id, req[p].seat_class) IN
     IF r \in DOMAIN tx[p].seats
     THEN /\ loc' = [loc EXCEPT ![p].available_seats = tx[p].seats[r].available_seats,
                                ![p].price_multiplier = tx[p].seats[r].price_multiplier]
          /\ Go(p, "c_check")
          /\ UNCHANGED <<db, tx, lock, req, result, now, db0, probe>>
     ELSE Raise(p, 404, "Seat class not available")

\* (mutants of the capacity check)
InsufficientSeats_Never(available_seats, seats_count) == FALSE

InsufficientSeats_OffByOne(available_seats, seats_count) ==
  available_seats <= seats_count

InsufficientSeats_OneOver(available_seats, seats_count) ==
  available_seats + 1 < seats_count

\* if available_seats < booking.seats_count: raise 409
InsufficientSeats(available_seats, seats_count) == available_seats < seats_count

\* (mutant: a flight with total_seats 0 is priced as if nothing were sold)
CreateCheckAndPrice_Default(p) ==
  /\ pc[p] = "c_check"
  /\ LET f == Flights[req[p].flight_id] IN
     IF InsufficientSeats(loc[p].available_seats, req[p].seats_count)
     THEN Raise(p, 409, "Only n seats available")
     ELSE LET price == IF f.total_seats = 0
                       THEN RoundHalfEven(f.base_price * loc[p].price_multiplier * 20
                                            * calculate_time_multiplier(f.departure_time - now)
                                            * 20, 1600)
                       ELSE calculate_dynamic_price(f.base_price, loc[p].price_multiplier,
                               loc[p].available_seats, f.total_seats,
                               f.departure_time - now, "medium")
          IN /\ loc' = [loc EXCEPT ![p].price_per_seat = price,
                                   ![p].total_price = price * req[p].seats_count]
             /\ Go(p, "c_ins_booking")
             /\ UNCHANGED <<db, tx, lock, req, result, now, db0, probe>>

\* capacity check, then calculate_dynamic_price and total_price
CreateCheckAndPrice(p) ==
  /\ pc[p] = "c_check"
  /\ LET f == Flights[req[p].flight_id] IN
     IF InsufficientSeats(loc[p].available_seats, req[p].seats_count)
     THEN Raise(p, 409, "Only n seats available")
     ELSE IF f.total_seats = 0
     THEN Raise(p, 500, "division by zero")
     ELSE LET price == calculate_dynamic_price(f.base_price, loc[p].price_multiplier,
                          loc[p].available_seats, f.total_seats,
                          f.departure_time - now, "medium")
          IN /\ loc' = [loc EXCEPT ![p].price_per_seat = price,
                                   ![p].total_price = price * req[p].seats_count]
             /\ Go(p, "c_ins_booking")
             /\ UNCHANGED <<db, tx, lock, req, result, now, db0, probe>>

\* (mutant: the booking is inserted as Pending)
NewBooking_Pending(p) ==
  [flight_id |-> req[p].flight_id, seat_class |-> req[p].seat_class,
   seats_booked |-> req[p].seats_count, final_price |-> loc[p].total_price,
   status |-> "Pending"]

NewBooking(p) ==
  [flight_id |-> req[p].flight_id, seat_class |-> req[p].seat_class,
   seats_booked |-> req[p].seats_count, final_price |-> loc[p].total_price,
   status |-> "Confirmed"]

CreateInsertBooking(p) ==
  /\ pc[p] = "c_ins_booking"
  /\ tx' = [tx EXCEPT ![p].bookings = Append(@, NewBooking(p))]
  /\ loc' = [loc EXCEPT ![p].booking_id = Len(tx[p].bookings) + 1, ![p].i = 0]
  /\ Go(p, IF req[p].passengers > 0 THEN "c_ins_passenger" ELSE "c_upd_seats")
  /\ UNCHANGED <<db, lock, req, result, now, db0, probe>>

\* (mutant: the loop stops after the first passenger)
CreateInsertPassenger_Once(p) ==
  /\ pc[p] = "c_ins_passenger"
  /\ tx' = [tx EXCEPT ![p].passengers = Append(@, [booking_id |-> loc[p].booking_id])]
  /\ loc' = [loc EXCEPT ![p].i = @ + 1]
  /\ Go(p, "c_upd_seats")
  /\ UNCHANGED <<db, lock, req, result, now, db0, probe>>

\* one iteration of: for passenger in booking.passengers or []
CreateInsertPassenger(p) ==
  /\ pc[p] = "c_ins_passenger"
  /\ tx' = [tx EXCEPT ![p].passengers = Append(@, [booking_id |-> loc[p].booking_id])]
  /\ loc' = [loc EXCEPT ![p].i = @ + 1]
  /\ Go(p, IF loc[p].i + 1 < req[p].passengers THEN "c_ins_passenger" ELSE "c_upd_seats")
  /\ UNCHANGED <<db, lock, req, result, now, db0, probe>>

\* (mutant: one seat is taken whatever the request's size)
SeatsAfterBooking_One(available_seats, seats_count) == available_seats - 1

SeatsAfterBooking(available_seats, seats_count) == available_seats - seats_count

\* UPDATE Seats SET available_seats = available_seats - ?
CreateUpdateSeats(p) ==
  /\ pc[p] = "c_upd_seats"
  /\ LET r == Row(req[p].flight_id, req[p].seat_class) IN
     tx' = [tx EXCEPT ![p].seats[r].available_seats =
                        SeatsAfterBooking(@, req[p].seats_count)]
  /\ Go(p, "c_ins_txn")
  /\ UNCHANGED <<db, lock, req, loc, result, now, db0, probe>>

\* (mutant: the payment recorded is the price of one seat)
CreateInsertTransaction_PerSeat(p) ==
  /\ pc[p] = "c_ins_txn"
  /\ tx' = [tx EXCEPT ![p].transactions =
              Append(@, [booking_id |-> loc[p].booking_id,
                         amount |-> loc[p].total_price \div req[p].seats_count,
                         payment_method |-> "Credit Card"])]
  /\ Go(p, "c_ins_history")
  /\ UNCHANGED <<db, lock, req, loc, result, now, db0, probe>>

CreateInsertTransaction(p) ==
  /\ pc[p] = "c_ins_txn"
  /\ tx' = [tx EXCEPT ![p].transactions =
              Append(@, [booking_id |-> loc[p].booking_id,
                         amount |-> loc[p].total_price,
                         payment_method |-> "Credit Card"])]
  /\ Go(p, "c_ins_history")
  /\ UNCHANGED <<db, lock, req, loc, result, now, db0, probe>>

\* (mutant: the CREATED entry is not written)
CreateInsertHistory_Missing(p) ==
  /\ pc[p] = "c_ins_history"
  /\ Go(p, "commit")
  /\ UNCHANGED <<db, tx, lock, req, loc, result, now, db0, probe>>

CreateInsertHistory(p) ==
  /\ pc[p] = "c_ins_history"
  /\ tx' = [tx EXCEPT ![p].history =
              Append(@, [booking_id |-> loc[p].booking_id, action |-> "CREATED"])]
  /\ Go(p, "commit")
  /\ UNCHANGED <<db, lock, req, loc, result, now, db0, probe>>

\* ---------------------------------------------------------- cancel_booking
\* (mutant: no short-circuit)
AlreadyCancelled_Never(status) == FALSE

\* if booking[5] == "Cancelled"
AlreadyCancelled(status) == status = "Cancelled"

\* (mutant: the short-circuit returns with the transaction still open)
CancelSelectBooking_Held(p) ==
  /\ pc[p] = "x_booking"
  /\ LET b == req[p].booking_id IN
     IF b \notin 1..Len(tx[p].bookings)
     THEN Raise(p, 404, "Booking not found")
     ELSE IF AlreadyCancelled(tx[p].bookings[b].status)
     THEN /\ Respond(p, 200, "Cancelled", b, 0, 0)
          /\ UNCHANGED <<db, tx, lock, req, now, db0, probe>>
     ELSE /\ loc' = [loc EXCEPT ![p].flight_id = tx[p].bookings[b].flight_id,
                                ![p].seat_class = tx[p].bookings[b].seat_class,
                                ![p].seats_booked = tx[p].bookings[b].seats_booked,
                                ![p].final_price = tx[p].bookings[b].final_price]
          /\ Go(p, "x_flight")
          /\ UNCHANGED <<db, tx, lock, req, result, now, db0, probe>>

\* (mutant: the status is the one the booking had before the lock was taken)
CancelSelectBooking_Stale(p) ==
  /\ pc[p] = "x_booking"
  /\ LET b == req[p].booking_id IN
     IF b \notin 1..Len(tx[p].bookings)
     THEN Raise(p, 404, "Booking not found")
     ELSE IF b \in 1..Len(db0.bookings) /\ AlreadyCancelled(db0.bookings[b].status)
     THEN /\ Rollback(p)
          /\ Respond(p, 200, "Cancelled", b, 0, 0)
          /\ UNCHANGED <<req, now, db0, probe>>
     ELSE /\ loc' = [loc EXCEPT ![p].flight_id = tx[p].bookings[b].flight_id,
                                ![p].seat_class = tx[p].bookings[b].seat_class,
                                ![p].seats_booked = tx[p].bookings[b].seats_booked,
                                ![p].final_price = tx[p].bookings[b].final_price]
          /\ Go(p, "x_flight")
          /\ UNCHANGED <<db, tx, lock, req, result, now, db0, probe>>

\* SELECT ... FROM Bookings WHERE booking_id = ?, and the short-circuit for
\* a booking that is already Cancelled (plain return; finally: conn.close())
CancelSelectBooking(p) ==
  /\ pc[p] = "x_booking"
  /\ LET b == req[p].booking_id IN
     IF b \notin 1..Len(tx[p].bookings)
     THEN Raise(p, 404, "Booking not found")
     ELSE IF AlreadyCancelled(tx[p].bookings[b].status)
     THEN /\ Rollback(p)
          /\ Respond(p, 200, "Cancelled", b, 0, 0)
          /\ UNCHANGED <<req, now, db0, probe>>
     ELSE /\ loc' = [loc EXCEPT ![p].flight_id = tx[p].bookings[b].flight_id,
                                ![p].seat_class = tx[p].bookings[b].seat_class,
                                ![p].seats_booked = tx[p].bookings[b].seats_booked,
                                ![p].final_price = tx[p].bookings[b].final_price]
          /\ Go(p, "x_flight")
          /\ UNCHANGED <<db, tx, lock, req, result, now, db0, probe>>

\* datetime.strptime(departure_time, "%Y-%m-%d %H:%M:%S") returns; it raises
\* ValueError on any other text
Parses(departure_time) == departure_time # NoTimestamp

\* (mutant: the ValueError of strptime reaches the handler)
CancelSelectFlight_Strict(p) ==
  /\ pc[p] = "x_flight"
  /\ IF loc[p].flight_id \notin FlightIds
     THEN Raise(p, 404, "Flight not found for booking")
     ELSE IF ~Parses(Flights[loc[p].flight_id].departure_time)
     THEN Raise(p, 500, "time data does not match format")
     ELSE LET pct == calculate_refund_percentage(
                       Flights[loc[p].flight_id].departure_time - now, 1)
          IN /\ loc' = [loc EXCEPT ![p].refund_percentage = pct,
                                   ![p].refund_amount =
                                      RefundAmount(loc[p].final_price, pct)]
             /\ Go(p, "x_seat")
             /\ UNCHANGED <<db, tx, lock, req, result, now, db0, probe>>

\* SELECT departure_time FROM Flights, then calculate_refund_percentage (whose
\* bare except turns the ValueError of strptime into 0) and the refund amount
CancelSelectFlight(p) ==
  /\ pc[p] = "x_flight"
  /\ IF loc[p].flight_id \notin FlightIds
     THEN Raise(p, 404, "Flight not found for booking")
     ELSE LET departure_time == Flights[loc[p].flight_id].departure_time
              pct == IF Parses(departure_time)
                     THEN calculate_refund_percentage(departure_time - now, 1)
                     ELSE 0
          IN /\ loc' = [loc EXCEPT ![p].refund_percentage = pct,
                                   ![p].refund_amount =
                                      RefundAmount(loc[p].final_price, pct)]
             /\ Go(p, "x_seat")
             /\ UNCHANGED <<db, tx, lock, req, result, now, db0, probe>>

\* (mutant: no clamp)
ClampedAvailable_Unclamped(available_seats, seats_booked, initial_inventory) ==
  available_seats + seats_booked

\* new_available = seat_row[1] + booking[3], clamped to seat_row[0]
ClampedAvailable(available_seats, seats_booked, initial_inventory) ==
  IF available_seats + seats_booked > initial_inventory
  THEN initial_inventory
  ELSE available_seats + seats_booked

\* (mutant: a booking whose inventory row is missing is cancelled all the same)
CancelSelectSeat_Lenient(p) ==
  /\ pc[p] = "x_seat"
  /\ LET r == Row(loc[p].flight_id, loc[p].seat_class) IN
     IF r \notin DOMAIN tx[p].seats
     THEN /\ tx' = [tx EXCEPT ![p].bookings[req[p].booking_id].status = "Cancelled"]
          /\ Go(p, "x_ins_history")
          /\ UNCHANGED <<db, lock, req, loc, result, now, db0, probe>>
     ELSE /\ loc' = [loc EXCEPT ![p].new_available =
                       ClampedAvailable(tx[p].seats[r].available_seats,
                                        loc[p].seats_booked,
                                        tx[p].seats[r].initial_inventory)]
          /\ Go(p, "x_upd_booking")
          /\ UNCHANGED <<db, tx, lock, req, result, now, db0, probe>>

CancelSelectSeat(p) ==
  /\ pc[p] = "x_seat"
  /\ LET r == Row(loc[p].flight_id, loc[p].seat_class) IN
     IF r \notin DOMAIN tx[p].seats
     THEN Raise(p, 404, "Seat configuration not found")
     ELSE /\ loc' = [loc EXCEPT ![p].new_available =
                       ClampedAvailable(tx[p].seats[r].available_seats,
                                        loc[p].seats_booked,
                                        tx[p].seats[r].initial_inventory)]
          /\ Go(p, "x_upd_booking")
          /\ UNCHANGED <<db, tx, lock, req, result, now, db0, probe>>

\* UPDATE Bookings SET status = 'Cancelled'
CancelUpdateBooking(p) ==
  /\ pc[p] = "x_upd_booking"
  /\ tx' = [tx EXCEPT ![p].bookings[req[p].booking_id].status = "Cancelled"]
  /\ Go(p, "x_upd_seats")
  /\ UNCHANGED <<db, lock, req, loc, result, now, db0, probe>>

\* (mutant: the refund transaction is inserted whatever its amount)
CancelUpdateSeats_AlwaysRefund(p) ==
  /\ pc[p] = "x_upd_seats"
  /\ LET r == Row(loc[p].flight_id, loc[p].seat_class) IN
     tx' = [tx EXCEPT ![p].seats[r].available_seats = loc[p].new_available]
  /\ Go(p, "x_ins_refund")
  /\ UNCHANGED <<db, lock, req, loc, result, now, db0, probe>>

\* (mutant: the UPDATE has no seat_class in its WHERE clause)
CancelUpdateSeats_AllClasses(p) ==
  /\ pc[p] = "x_upd_seats"
  /\ tx' = [tx EXCEPT ![p].seats =
              [r \in DOMAIN @ |->
                 IF r[1] = loc[p].flight_id
                 THEN [@[r] EXCEPT !.available_seats = loc[p].new_available]
                 ELSE @[r]]]
  /\ Go(p, IF loc[p].refund_amount > 0 THEN "x_ins_refund" ELSE "x_ins_history")
  /\ UNCHANGED <<db, lock, req, loc, result, now, db0, probe>>

\* (mutant: the cancellation leaves the inventory row as it is)
CancelUpdateSeats_Kept(p) ==
  /\ pc[p] = "x_upd_seats"
  /\ tx' = tx
  /\ Go(p, IF loc[p].refund_amount > 0 THEN "x_ins_refund" ELSE "x_ins_history")
  /\ UNCHANGED <<db, lock, req, loc, result, now, db0, probe>>

\* UPDATE Seats SET available_seats = new_available; if refund_amount > 0
CancelUpdateSeats(p) ==
  /\ pc[p] = "x_upd_seats"
  /\ LET r == Row(loc[p].flight_id, loc[p].seat_class) IN
     tx' = [tx EXCEPT ![p].seats[r].available_seats = loc[p].new_available]
  /\ Go(p, IF loc[p].refund_amount > 0 THEN "x_ins_refund" ELSE "x_ins_history")
  /\ UNCHANGED <<db, lock, req, loc, result, now, db0, probe>>

\* (mutant: the refund is taken off the booking's payment row)
CancelInsertRefund_Netted(p) ==
  /\ pc[p] = "x_ins_refund"
  /\ tx' = [tx EXCEPT ![p].transactions =
              [i \in DOMAIN @ |->
                 IF @[i].booking_id = req[p].booking_id
                 THEN [@[i] EXCEPT !.amount = @ - loc[p].refund_amount]
                 ELSE @[i]]]
  /\ Go(p, "x_ins_history")
  /\ UNCHANGED <<db, lock, req, loc, result, now, db0, probe>>

\* INSERT INTO Transactions ... "REFUND"
CancelInsertRefund(p) ==
  /\ pc[p] = "x_ins_refund"
  /\ tx' = [tx EXCEPT ![p].transactions =
              Append(@, [booking_id |-> req[p].booking_id,
                         amount |-> -loc[p].refund_amount,
                         payment_method |-> "REFUND"])]
  /\ Go(p, "x_ins_history")
  /\ UNCHANGED <<db, lock, req, loc, result, now, db0, probe>>

\* (mutant: the cancellation is not entered in the history)
CancelInsertHistory_Skipped(p) ==
  /\ pc[p] = "x_ins_history"
  /\ Go(p, "commit")
  /\ UNCHANGED <<db, tx, lock, req, loc, result, now, db0, probe>>

\* INSERT INTO BookingHistory ... "CANCELLED"
CancelInsertHistory(p) ==
  /\ pc[p] = "x_ins_history"
  /\ tx' = [tx EXCEPT ![p].history =
              Append(@, [booking_id |-> req[p].booking_id, action |-> "CANCELLED",
                         refund_percentage |-> loc[p].refund_percentage,
                         refund_amount |-> loc[p].refund_amount])]
  /\ Go(p, "commit")
  /\ UNCHANGED <<db, lock, req, loc, result, now, db0, probe>>

\* ------------------------------------------------------- commit and failure
\* conn.commit() and the success response of either handler
Commit(p) ==
  /\ pc[p] = "commit"
  /\ db' = tx[p]
  /\ tx' = [tx EXCEPT ![p] = NoTx]
  /\ lock' = IF lock = p THEN 0 ELSE lock
  /\ IF req[p].op = "create"
     THEN Respond(p, 200, "Booking created successfully", loc[p].booking_id, 0, 0)
     ELSE Respond(p, 200, "Cancelled", req[p].booking_id,
                  loc[p].refund_percentage, loc[p].refund_amount)
  /\ UNCHANGED <<req, now, db0, probe>>

WriteLabels ==
  {"c_ins_booking", "c_ins_passenger", "c_upd_seats", "c_ins_txn", "c_ins_history",
   "x_upd_booking", "x_upd_seats", "x_ins_refund", "x_ins_history", "commit"}

\* the store fails on a write or on the commit: except Exception -> rollback
\* (the detail tells whether earlier writes of the transaction were pending)
StoreFailure(p) ==
  /\ pc[p] \in WriteLabels
  /\ Raise(p, 500, IF tx[p] # db THEN "store failure after a write"
                   ELSE "store failure")

\* the wall clock read by datetime.now() moves forward
Tick ==
  /\ \E t \in Instants : t > now /\ now' = t
  /\ UNCHANGED <<db, tx, lock, pc, req, loc, result, db0, probe>>

Next ==
  \/ \E p \in Procs : Start(p)
  \/ \E p \in Procs : Begin(p)
  \/ \E p \in Procs : BeginBusy(p)
  \/ \E p \in Procs : CreateSelectFlight(p)
  \/ \E p \in Procs : CreateSelectSeat(p)
  \/ \E p \in Procs : CreateCheckAndPrice(p)
  \/ \E p \in Procs : CreateInsertBooking(p)
  \/ \E p \in Procs : CreateInsertPassenger(p)
  \/ \E p \in Procs : CreateUpdateSeats(p)
  \/ \E p \in Procs : CreateInsertTransaction(p)
  \/ \E p \in Procs : CreateInsertHistory(p)
  \/ \E p \in Procs : CancelSelectBooking(p)
  \/ \E p \in Procs : CancelSelectFlight(p)
  \/ \E p \in Procs : CancelSelectSeat(p)
  \/ \E p \in Procs : CancelUpdateBooking(p)
  \/ \E p \in Procs : CancelUpdateSeats(p)
  \/ \E p \in Procs : CancelInsertRefund(p)
  \/ \E p \in Procs : CancelInsertHistory(p)
  \/ \E p \in Procs : Commit(p)
  \/ \E p \in Procs : StoreFailure(p)
  \/ Tick

Spec == Init /\ [][Next]_vars

\* a handler that was called runs on to its response: every statement returns,
\* BEGIN IMMEDIATE after the busy timeout at the latest
Step(p) ==
  \/ Begin(p) \/ BeginBusy(p)
  \/ CreateSelectFlight(p) \/ CreateSelectSeat(p) \/ CreateCheckAndPrice(p)
  \/ CreateInsertBooking(p) \/ CreateInsertPassenger(p) \/ CreateUpdateSeats(p)
  \/ CreateInsertTransaction(p) \/ CreateInsertHistory(p)
  \/ CancelSelectBooking(p) \/ CancelSelectFlight(p) \/ CancelSelectSeat(p)
  \/ CancelUpdateBooking(p) \/ CancelUpdateSeats(p) \/ CancelInsertRefund(p)
  \/ CancelInsertHistory(p) \/ Commit(p)

Fairness == \A p \in Procs : WF_vars(Step(p))

\* ------------------------------- the handlers behind the request validation
InitIntake ==
  /\ db = EmptyStore(1)
  /\ db0 = db
  /\ tx = [p \in Procs |-> NoTx]
  /\ lock = 0
  /\ pc = [p \in Procs |-> "idle"]
  /\ req = [p \in Procs |-> NoReq]
  /\ loc = [p \in Procs |-> NoLoc]
  /\ result = [p \in Procs |-> NoResult]
  /\ now = 0
  /\ probe = NoProbe

NextIntake ==
  \/ \E p \in Procs : Reject(p)
  \/ Next

SpecIntake == InitIntake /\ [][NextIntake]_vars

\* the handlers alone, at one instant: whether a handler returns does not
\* depend on the clock
NextLive ==
  \/ \E p \in Procs : Start(p)
  \/ \E p \in Procs : Step(p)
  \/ \E p \in Procs : StoreFailure(p)

SpecLive == InitIntake /\ [][NextLive]_vars /\ Fairness

\* ------------------------- the handlers over stores with orphaned bookings
InitOrphan ==
  /\ db \in OrphanStores
  /\ db0 = db
  /\ tx = [p \in Procs |-> NoTx]
  /\ lock = 0
  /\ pc = [p \in Procs |-> "idle"]
  /\ req = [p \in Procs |-> NoReq]
  /\ loc = [p \in Procs |-> NoLoc]
  /\ result = [p \in Procs |-> NoResult]
  /\ now \in Instants
  /\ probe = NoProbe

SpecOrphan == InitOrphan /\ [][Next]_vars

\* ------------- the handlers over a store in which nothing has been booked
InitFresh ==
  /\ db = EmptyStore(2)
  /\ db0 = db
  /\ tx = [p \in Procs |-> NoTx]
  /\ lock = 0
  /\ pc = [p \in Procs |-> "idle"]
  /\ req = [p \in Procs |-> NoReq]
  /\ loc = [p \in Procs |-> NoLoc]
  /\ result = [p \in Procs |-> NoResult]
  /\ now \in Instants
  /\ probe = NoProbe

SpecFresh == InitFresh /\ [][Next]_vars

\* ------ the handlers over a store that holds one booking made earlier, still
\* Confirmed with its two seats taken, or Cancelled with them free again
LegacyStores == {LegacyStore(0, "Confirmed"), LegacyStore(2, "Cancelled")}

InitLegacy ==
  /\ db \in LegacyStores
  /\ db0 = db
  /\ tx = [p \in Procs |-> NoTx]
  /\ lock = 0
  /\ pc = [p \in Procs |-> "idle"]
  /\ req = [p \in Procs |-> NoReq]
  /\ loc = [p \in Procs |-> NoLoc]
  /\ result = [p \in Procs |-> NoResult]
  /\ now \in Instants
  /\ probe = NoProbe

SpecLegacy == InitLegacy /\ [][Next]_vars

\* ---- the handlers over a store with a booking on the flight whose
\* departure_time is no timestamp
UnparsedStore ==
  [seats |-> [r \in Rows \cup {<<7, "Economy">>} |->
                IF r = <<7, "Economy">> THEN SeatRow(1, 0, 20)
                ELSE EmptyStore(2).seats[r]],
   bookings |-> <<[flight_id |-> 7, seat_class |-> "Economy", seats_booked |-> 1,
                   final_price |-> 10000, status |-> "Confirmed"]>>,
   passengers |-> <<[booking_id |-> 1]>>,
   transactions |->
      <<[booking_id |-> 1, amount |-> 10000, payment_method |-> "Credit Card"]>>,
   history |-> <<[booking_id |-> 1, action |-> "CREATED"]>>]

InitUnparsed ==
  /\ db = UnparsedStore
  /\ db0 = db
  /\ tx = [p \in Procs |-> NoTx]
  /\ lock = 0
  /\ pc = [p \in Procs |-> "idle"]
  /\ req = [p \in Procs |-> NoReq]
  /\ loc = [p \in Procs |-> NoLoc]
  /\ result = [p \in Procs |-> NoResult]
  /\ now \in Instants
  /\ probe = NoProbe

SpecUnparsed == InitUnparsed /\ [][Next]_vars

\* ------------------------------------------------- the read-only handlers
\* determine_demand_level: occupancy_ratio = sold / total, booking_velocity in
\* ten-thousandths, days_until_departure = hours / 24
determine_demand_level(sold, total, booking_velocity, hours) ==
  IF 100 * sold >= 75 * total \/ booking_velocity >= 2500 \/ hours <= 72
  THEN "high"
  ELSE IF 10 * sold <= 3 * total /\ booking_velocity <= 800 /\ hours > 336
  THEN "low"
  ELSE "medium"

\* datetime.strptime(departure_date, "%Y-%m-%d"), on the strings drawn: the
\* number of the day, or -1 for ValueError
ParseDate(departure_date) ==
  IF departure_date = "2025-01-04" THEN 3
  ELSE IF departure_date = "2025-01-05" THEN 4
  ELSE -1

\* DATE(f.departure_time)
DateOf(departure_time) == departure_time \div 24

SearchRequest(origin, destination, departure_date, seat_class, sort_by) ==
  [op |-> "search", origin |-> origin, destination |-> destination,
   departure_date |-> departure_date, seat_class |-> seat_class,
   sort_by |-> sort_by]

DetailRequest(f, c) == [op |-> "detail", flight_id |-> f, seat_class |-> c]

PricingRequest(f, c, n) ==
  [op |-> "pricing", flight_id |-> f, seat_class |-> c, seats |-> n]

\* sort_by "none" is the absent parameter; the last three searches are of the
\* day before, of the way back (a flight with total_seats 0) and of a date in
\* another format
SearchRequests ==
  {SearchRequest("DEL", "BOM", "2025-01-05", "Economy", s) :
     s \in {"none", "price", "duration", "departure_time"}}
    \cup {SearchRequest("DEL", "BOM", "2025-01-05", "Business", "price"),
          SearchRequest("DEL", "BOM", "2025-01-04", "Economy", "price"),
          SearchRequest("BOM", "DEL", "2025-01-05", "Economy", "none"),
          SearchRequest("DEL", "BOM", "05/01/2025", "Economy", "none")}

DetailRequests ==
  {DetailRequest(1, "Economy"), DetailRequest(1, "Business"),
   DetailRequest(2, "Business"), DetailRequest(3, "Economy"),
   DetailRequest(6, "Economy")}

PricingRequests ==
  {PricingRequest(1, "Economy", n) : n \in 1..MaxSeatsCount}
    \cup {PricingRequest(1, "Business", 1), PricingRequest(2, "Business", 1),
          PricingRequest(3, "Economy", 1), PricingRequest(6, "Economy", 1)}

\* the bookings and the cancellation made while the queries run
CatalogRequests ==
  {CreateRequest(1, "Economy", 1, 1), CreateRequest(6, "Economy", 1, 1),
   CancelRequest(1)}

\* the inventory of the whole catalog: flight 1 has two Economy seats and one
\* Business seat, flights 2 and 4 Economy only, flight 5 three and one
QueryRows ==
  Rows \cup {<<4, "Economy">>, <<5, "Economy">>, <<5, "Business">>,
             <<6, "Economy">>}

QueryStore(available) ==
  [seats |-> [r \in QueryRows |->
                IF r = <<1, "Economy">> THEN SeatRow(2, available, 20)
                ELSE IF r = <<5, "Economy">> THEN SeatRow(3, 3, 20)
                ELSE IF r[2] = "Business" THEN SeatRow(1, 1, 30)
                ELSE IF r = <<4, "Economy">> THEN SeatRow(2, 2, 20)
                ELSE SeatRow(1, 1, 20)],
   bookings |-> IF available = 2 THEN <<>>
                ELSE <<[flight_id |-> 1, seat_class |-> "Economy",
                        seats_booked |-> 2 - available, final_price |-> 15000,
                        status |-> "Confirmed"]>>,
   passengers |-> IF available = 2 THEN <<>> ELSE <<[booking_id |-> 1]>>,
   transactions |->
     IF available = 2 THEN <<>>
     ELSE <<[booking_id |-> 1, amount |-> 15000, payment_method |-> "Credit Card"]>>,
   history |-> IF available = 2 THEN <<>>
               ELSE <<[booking_id |-> 1, action |-> "CREATED"]>>]

\* the store the queries start from: one Economy seat of flight 1 is booked
QueryStores == {QueryStore(1)}

\* the rows of Flights in rowid order, as a SELECT without ORDER BY scans them
FlightRows == <<1, 2, 4, 5, 6, 7>>

\* SELECT ... FROM Flights f JOIN Airlines a ... WHERE f.origin = ? AND
\* f.destination = ? AND DATE(f.departure_time) = ?  (every flight has its
\* airline)
MatchingFlights(r) ==
  LET Matches(f) == /\ Flights[f].origin = r.origin
                    /\ Flights[f].destination = r.destination
                    /\ DateOf(Flights[f].departure_time) = ParseDate(r.departure_date)
  IN  SelectSeq(FlightRows, Matches)

\* the handler returns its body with status 200
Reply(p, body) ==
  /\ Go(p, "done")
  /\ result' = [result EXCEPT ![p] = body]
  /\ loc' = [loc EXCEPT ![p] = NoLoc]
  /\ UNCHANGED <<db, tx, lock, req, now, db0, probe>>

\* raise HTTPException(status): no transaction is open
QueryFail(p, status, detail) ==
  /\ Respond(p, status, detail, 0, 0, 0)
  /\ UNCHANGED <<db, tx, lock, req, now, db0, probe>>

\* GET /api/flights/search: the date is parsed and the flights are selected
SearchSelectFlights(p) ==
  /\ pc[p] = "begin"
  /\ \E r \in SearchRequests :
       /\ req' = [req EXCEPT ![p] = r]
       /\ IF ParseDate(r.departure_date) = -1
          THEN Respond(p, 400, "Invalid date format. Use YYYY-MM-DD", 0, 0, 0)
          ELSE /\ loc' = [loc EXCEPT ![p] =
                            [rows |-> MatchingFlights(r), i |-> 1, flights |-> <<>>]]
               /\ Go(p, "s_seat")
               /\ UNCHANGED result
  /\ UNCHANGED <<db, tx, lock, now, db0, probe>>

\* one turn of the loop over the rows fetched: the seat row of the flight is
\* selected and the flight is priced, or skipped when it has no such row
SearchSelectSeat(p) ==
  /\ pc[p] = "s_seat"
  /\ loc[p].i <= Len(loc[p].rows)
  /\ LET f == loc[p].rows[loc[p].i]
         r == Row(f, req[p].seat_class)
     IN  IF r \notin DOMAIN db.seats
         THEN /\ loc' = [loc EXCEPT ![p].i = @ + 1]
              /\ UNCHANGED <<db, tx, lock, pc, req, result, now, db0, probe>>
         ELSE IF Flights[f].total_seats = 0
         THEN QueryFail(p, 500, "Internal server error: division by zero")
         ELSE /\ loc' = [loc EXCEPT
                    ![p].flights = Append(@,
                       [flight_id |-> f,
                        departure_time |-> Flights[f].departure_time,
                        arrival_time |-> Flights[f].arrival_time,
                        dynamic_price |->
                           calculate_dynamic_price(Flights[f].base_price,
                              db.seats[r].price_multiplier,
                              db.seats[r].available_seats,
                              Flights[f].total_seats,
                              Flights[f].departure_time - now, "medium"),
                        available_seats |-> db.seats[r].available_seats,
                        seat_class |-> req[p].seat_class]),
                    ![p].i = @ + 1]
              /\ UNCHANGED <<db, tx, lock, pc, req, result, now, db0, probe>>

\* the key flights.sort() is given for each sort_by
SortKey(x, sort_by) ==
  IF sort_by = "price" THEN x.dynamic_price
  ELSE IF sort_by = "duration" THEN x.arrival_time - x.departure_time
  ELSE x.departure_time

\* (mutant: flights of equal key come out in reverse order)
StableSort_TiesReversed(flights, sort_by) ==
  LET n == Len(flights)
      Before(j, i) == \/ SortKey(flights[j], sort_by) < SortKey(flights[i], sort_by)
                      \/ /\ SortKey(flights[j], sort_by) = SortKey(flights[i], sort_by)
                         /\ j > i
      Rank(i) == Cardinality({j \in 1..n : Before(j, i)})
  IN  [k \in 1..n |-> flights[CHOOSE i \in 1..n : Rank(i) = k - 1]]

\* list.sort(key=...): ascending, and stable: the element that goes to place k
\* is the one with k - 1 elements before it, those of a smaller key and those of
\* the same key that stood before it
StableSort(flights, sort_by) ==
  LET n == Len(flights)
      Before(j, i) == \/ SortKey(flights[j], sort_by) < SortKey(flights[i], sort_by)
                      \/ /\ SortKey(flights[j], sort_by) = SortKey(flights[i], sort_by)
                         /\ j < i
      Rank(i) == Cardinality({j \in 1..n : Before(j, i)})
  IN  [k \in 1..n |-> flights[CHOOSE i \in 1..n : Rank(i) = k - 1]]

SortedKeys == {"price", "duration", "departure_time"}

\* the loop is over: the list is sorted if sort_by names a key, and returned
SearchReturn(p) ==
  /\ pc[p] = "s_seat"
  /\ loc[p].i > Len(loc[p].rows)
  /\ Reply(p, [status |-> 200, detail |-> "",
               flights |-> IF req[p].sort_by \in SortedKeys
                           THEN StableSort(loc[p].flights, req[p].sort_by)
                           ELSE loc[p].flights])

\* GET /api/flights/{flight_id}: the flight is selected
DetailSelectFlight(p) ==
  /\ pc[p] = "begin"
  /\ \E r \in DetailRequests :
       /\ req' = [req EXCEPT ![p] = r]
       /\ IF r.flight_id \in FlightIds
          THEN Go(p, "d_seats") /\ UNCHANGED <<loc, result>>
          ELSE Respond(p, 404, "Flight not found", 0, 0, 0)
  /\ UNCHANGED <<db, tx, lock, now, db0, probe>>

\* the seat rows of the flight are selected, the row of the class is looked up
\* among them and the flight is priced
DetailSelectSeats(p) ==
  /\ pc[p] = "d_seats"
  /\ LET f == req[p].flight_id
         r == Row(f, req[p].seat_class)
         seats == {s \in DOMAIN db.seats : s[1] = f}
     IN  IF r \notin seats
         THEN QueryFail(p, 404, "Seat class not available")
         ELSE IF Flights[f].total_seats = 0
         THEN QueryFail(p, 500, "Internal server error: division by zero")
         ELSE Reply(p, [status |-> 200, detail |-> "", flight_id |-> f,
                        seat_class |-> req[p].seat_class,
                        dynamic_price |->
                           calculate_dynamic_price(Flights[f].base_price,
                              db.seats[r].price_multiplier,
                              db.seats[r].available_seats,
                              Flights[f].total_seats,
                              Flights[f].departure_time - now, "medium"),
                        available_seats |-> db.seats[r].available_seats,
                        seats_available |->
                           [s \in seats |-> db.seats[s].available_seats]])

\* GET /api/pricing/flight/{flight_id}: the flight is selected
PricingSelectFlight(p) ==
  /\ pc[p] = "begin"
  /\ \E r \in PricingRequests :
       /\ req' = [req EXCEPT ![p] = r]
       /\ IF r.flight_id \in FlightIds
          THEN Go(p, "q_seat") /\ UNCHANGED <<loc, result>>
          ELSE Respond(p, 404, "Flight not found", 0, 0, 0)
  /\ UNCHANGED <<db, tx, lock, now, db0, probe>>

\* (timedelta).days + 1, not below 0
DaysUntilDeparture(hours) ==
  IF hours \div 24 + 1 < 0 THEN 0 ELSE hours \div 24 + 1

\* (mutant: the demand level is the one determine_demand_level finds)
PricingSelectSeat_Demand(p) ==
  /\ pc[p] = "q_seat"
  /\ LET f == req[p].flight_id
         r == Row(f, req[p].seat_class)
     IN  IF r \notin DOMAIN db.seats
         THEN QueryFail(p, 404, "Seat class not available")
         ELSE IF Flights[f].total_seats = 0
         THEN QueryFail(p, 500, "Internal server error: division by zero")
         ELSE LET price ==
                    calculate_dynamic_price(Flights[f].base_price,
                       db.seats[r].price_multiplier,
                       db.seats[r].available_seats,
                       Flights[f].total_seats,
                       Flights[f].departure_time - now,
                       determine_demand_level(
                          Flights[f].total_seats - db.seats[r].available_seats,
                          Flights[f].total_seats, 0,
                          Flights[f].departure_time - now))
              IN  Reply(p, [status |-> 200, detail |-> "", flight_id |-> f,
                            seat_class |-> req[p].seat_class,
                            dynamic_price |-> price,
                            seats_requested |-> req[p].seats,
                            total_price |-> price * req[p].seats,
                            available_seats |-> db.seats[r].available_seats,
                            total_seats |-> Flights[f].total_seats,
                            days_until_departure |->
                               DaysUntilDeparture(Flights[f].departure_time - now)])

\* (mutant: the seat row is read as the connection holding the write lock has
\* written it, as with read_uncommitted on a shared cache)
PricingSelectSeat_Dirty(p) ==
  /\ pc[p] = "q_seat"
  /\ LET f == req[p].flight_id
         r == Row(f, req[p].seat_class)
         seen == IF lock # 0 THEN tx[lock] ELSE db
     IN  IF r \notin DOMAIN db.seats
         THEN QueryFail(p, 404, "Seat class not available")
         ELSE IF Flights[f].total_seats = 0
         THEN QueryFail(p, 500, "Internal server error: division by zero")
         ELSE LET price ==
                    calculate_dynamic_price(Flights[f].base_price,
                       seen.seats[r].price_multiplier,
                       seen.seats[r].available_seats,
                       Flights[f].total_seats,
                       Flights[f].departure_time - now, "medium")
              IN  Reply(p, [status |-> 200, detail |-> "", flight_id |-> f,
                            seat_class |-> req[p].seat_class,
                            dynamic_price |-> price,
                            seats_requested |-> req[p].seats,
                            total_price |-> price * req[p].seats,
                            available_seats |-> seen.seats[r].available_seats,
                            total_seats |-> Flights[f].total_seats,
                            days_until_departure |->
                               DaysUntilDeparture(Flights[f].departure_time - now)])

\* the seat row is selected, the flight is priced and the breakdown returned
PricingSelectSeat(p) ==
  /\ pc[p] = "q_seat"
  /\ LET f == req[p].flight_id
         r == Row(f, req[p].seat_class)
     IN  IF r \notin DOMAIN db.seats
         THEN QueryFail(p, 404, "Seat class not available")
         ELSE IF Flights[f].total_seats = 0
         THEN QueryFail(p, 500, "Internal server error: division by zero")
         ELSE LET price ==
                    calculate_dynamic_price(Flights[f].base_price,
                       db.seats[r].price_multiplier,
                       db.seats[r].available_seats,
                       Flights[f].total_seats,
                       Flights[f].departure_time - now, "medium")
              IN  Reply(p, [status |-> 200, detail |-> "", flight_id |-> f,
                            seat_class |-> req[p].seat_class,
                            dynamic_price |-> price,
                            seats_requested |-> req[p].seats,
                            total_price |-> price * req[p].seats,
                            available_seats |-> db.seats[r].available_seats,
                            total_seats |-> Flights[f].total_seats,
                            days_until_departure |->
                               DaysUntilDeparture(Flights[f].departure_time - now)])

\* GET /api/users/{user_id}/bookings: every booking of the stores is user 1's
BookingsRequest(u) == [op |-> "bookings", user_id |-> u]

BookingsRequests == {BookingsRequest(u) : u \in 1..2}

\* SELECT ... FROM Bookings b JOIN Flights f ... WHERE b.user_id = ? ORDER BY
\* b.booking_date DESC: the user's bookings on flights that exist, the latest
\* first
UserBookings(store, u) ==
  LET n == Len(store.bookings)
      Listed(b) == u = 1 /\ store.bookings[b].flight_id \in FlightIds
      ids == SelectSeq([k \in 1..n |-> n + 1 - k], Listed)
  IN  [k \in 1..Len(ids) |->
         [booking_id |-> ids[k],
          flight_id |-> store.bookings[ids[k]].flight_id,
          seat_class |-> store.bookings[ids[k]].seat_class,
          seats_booked |-> store.bookings[ids[k]].seats_booked,
          final_price |-> store.bookings[ids[k]].final_price,
          status |-> store.bookings[ids[k]].status]]

\* (mutant: the bookings are read inside a write transaction that is left open)
BookingsSelect_Locking(p) ==
  /\ pc[p] = "begin"
  /\ lock = 0
  /\ lock' = p
  /\ \E r \in BookingsRequests :
       /\ req' = [req EXCEPT ![p] = r]
       /\ result' = [result EXCEPT ![p] =
                       [status |-> 200, detail |-> "", user_id |-> r.user_id,
                        count |-> Len(UserBookings(db, r.user_id)),
                        bookings |-> UserBookings(db, r.user_id)]]
  /\ Go(p, "done")
  /\ UNCHANGED <<db, tx, loc, now, db0, probe>>

\* the bookings are selected and returned
BookingsSelect(p) ==
  /\ pc[p] = "begin"
  /\ \E r \in BookingsRequests :
       /\ req' = [req EXCEPT ![p] = r]
       /\ result' = [result EXCEPT ![p] =
                       [status |-> 200, detail |-> "", user_id |-> r.user_id,
                        count |-> Len(UserBookings(db, r.user_id)),
                        bookings |-> UserBookings(db, r.user_id)]]
  /\ Go(p, "done")
  /\ UNCHANGED <<db, tx, lock, loc, now, db0, probe>>

\* cursor.execute("BEGIN IMMEDIATE") of a booking or cancellation made while
\* the queries run
BeginCatalog(p) ==
  /\ pc[p] = "begin"
  /\ lock = 0
  /\ lock' = p
  /\ tx' = [tx EXCEPT ![p] = db]
  /\ \E r \in CatalogRequests :
       /\ req' = [req EXCEPT ![p] = r]
       /\ Go(p, IF r.op = "create" THEN "c_flight" ELSE "x_booking")
  /\ UNCHANGED <<db, loc, result, now, db0, probe>>

InitQuery ==
  /\ db \in QueryStores
  /\ db0 = db
  /\ tx = [p \in Procs |-> NoTx]
  /\ lock = 0
  /\ pc = [p \in Procs |-> "idle"]
  /\ req = [p \in Procs |-> NoReq]
  /\ loc = [p \in Procs |-> NoLoc]
  /\ result = [p \in Procs |-> NoResult]
  /\ now \in Instants
  /\ probe = NoProbe

NextQuery ==
  \/ \E p \in Procs : Start(p)
  \/ \E p \in Procs : SearchSelectFlights(p)
  \/ \E p \in Procs : SearchSelectSeat(p)
  \/ \E p \in Procs : SearchReturn(p)
  \/ \E p \in Procs : DetailSelectFlight(p)
  \/ \E p \in Procs : DetailSelectSeats(p)
  \/ \E p \in Procs : PricingSelectFlight(p)
  \/ \E p \in Procs : PricingSelectSeat(p)
  \/ \E p \in Procs : BookingsSelect(p)
  \/ \E p \in Procs : BeginCatalog(p)
  \/ \E p \in Procs : BeginBusy(p)
  \/ \E p \in Procs : CreateSelectFlight(p)
  \/ \E p \in Procs : CreateSelectSeat(p)
  \/ \E p \in Procs : CreateCheckAndPrice(p)
  \/ \E p \in Procs : CreateInsertBooking(p)
  \/ \E p \in Procs : CreateInsertPassenger(p)
  \/ \E p \in Procs : CreateUpdateSeats(p)
  \/ \E p \in Procs : CreateInsertTransaction(p)
  \/ \E p \in Procs : CreateInsertHistory(p)
  \/ \E p \in Procs : CancelSelectBooking(p)
  \/ \E p \in Procs : CancelSelectFlight(p)
  \/ \E p \in Procs : CancelSelectSeat(p)
  \/ \E p \in Procs : CancelUpdateBooking(p)
  \/ \E p \in Procs : CancelUpdateSeats(p)
  \/ \E p \in Procs : CancelInsertRefund(p)
  \/ \E p \in Procs : CancelInsertHistory(p)
  \/ \E p \in Procs : Commit(p)

SpecQuery == InitQuery /\ [][NextQuery]_vars

\* the searches, flight details and quotes read while bookings and a
\* cancellation are written, committed or rolled back
NextReaders ==
  \/ \E p \in Procs : Start(p)
  \/ \E p \in Procs : SearchSelectFlights(p)
  \/ \E p \in Procs : SearchSelectSeat(p)
  \/ \E p \in Procs : SearchReturn(p)
  \/ \E p \in Procs : DetailSelectFlight(p)
  \/ \E p \in Procs : DetailSelectSeats(p)
  \/ \E p \in Procs : PricingSelectFlight(p)
  \/ \E p \in Procs : PricingSelectSeat(p)
  \/ \E p \in Procs : BeginCatalog(p)
  \/ \E p \in Procs : BeginBusy(p)
  \/ \E p \in Procs : CreateSelectFlight(p)
  \/ \E p \in Procs : CreateSelectSeat(p)
  \/ \E p \in Procs : CreateCheckAndPrice(p)
  \/ \E p \in Procs : CreateInsertBooking(p)
  \/ \E p \in Procs : CreateInsertPassenger(p)
  \/ \E p \in Procs : CreateUpdateSeats(p)
  \/ \E p \in Procs : CreateInsertTransaction(p)
  \/ \E p \in Procs : CreateInsertHistory(p)
  \/ \E p \in Procs : CancelSelectBooking(p)
  \/ \E p \in Procs : CancelSelectFlight(p)
  \/ \E p \in Procs : CancelSelectSeat(p)
  \/ \E p \in Procs : CancelUpdateBooking(p)
  \/ \E p \in Procs : CancelUpdateSeats(p)
  \/ \E p \in Procs : CancelInsertRefund(p)
  \/ \E p \in Procs : CancelInsertHistory(p)
  \/ \E p \in Procs : Commit(p)
  \/ \E p \in Procs : StoreFailure(p)

\* at one instant: what a reader sees does not depend on the clock
InitReaders == InitQuery /\ now = 0

SpecReaders == InitReaders /\ [][NextReaders]_vars

\* ------------------------------------------- the refund policy on its own
ProbeHours == (0 - 10 * TicksPerHour)..(MaxProbeHours * TicksPerHour)

RefundProbe(n) ==
  [num |-> n, den |-> TicksPerHour,
   value |-> calculate_refund_percentage(n, TicksPerHour)]

InitRefund ==
  /\ db = EmptyStore(2)
  /\ db0 = db
  /\ tx = [p \in Procs |-> NoTx]
  /\ lock = 0
  /\ pc = [p \in Procs |-> "idle"]
  /\ req = [p \in Procs |-> NoReq]
  /\ loc = [p \in Procs |-> NoLoc]
  /\ result = [p \in Procs |-> NoResult]
  /\ now = 0
  /\ \E n \in ProbeHours : probe = RefundProbe(n)

ApplyRefundPolicy ==
  /\ \E n \in ProbeHours : probe' = RefundProbe(n)
  /\ UNCHANGED <<db, tx, lock, pc, req, loc, result, now, db0>>

SpecRefund == InitRefund /\ [][ApplyRefundPolicy]_vars

\* ------------------------------------------ the pricing engine on its own
ProbeDemandLevels == {"low", "medium", "HIGH", "surge"}
ProbeDepartureHours == {0 - 5, 12, 24, 25, 72, 73, 168, 169, 336, 337, 720, 721}

\* (total_seats, available_seats): a five-seat flight at every occupancy, and
\* a hundred-seat flight at the highest occupancy threshold and one seat short
\* of each threshold
ProbeSeats == {<<5, a>> : a \in 0..5} \cup {<<100, a>> : a \in {20, 21, 41, 61}}

PriceProbe(base_price, multiplier, seats, hours, demand_level) ==
  [base_price |-> base_price, multiplier |-> multiplier,
   total_seats |-> seats[1], available_seats |-> seats[2],
   hours |-> hours, demand_level |-> demand_level,
   occupancy_multiplier |->
     calculate_occupancy_multiplier(seats[1] - seats[2], seats[1]),
   time_multiplier |-> calculate_time_multiplier(hours),
   demand_multiplier |-> calculate_demand_multiplier(demand_level),
   value |-> calculate_dynamic_price(base_price, multiplier, seats[2], seats[1],
                                     hours, demand_level)]

PriceProbes ==
  {PriceProbe(b, m, s, h, d) :
     b \in {99, 100}, m \in {20, 30}, s \in ProbeSeats,
     h \in ProbeDepartureHours, d \in ProbeDemandLevels}

InitPrice ==
  /\ db = EmptyStore(2)
  /\ db0 = db
  /\ tx = [p \in Procs |-> NoTx]
  /\ lock = 0
  /\ pc = [p \in Procs |-> "idle"]
  /\ req = [p \in Procs |-> NoReq]
  /\ loc = [p \in Procs |-> NoLoc]
  /\ result = [p \in Procs |-> NoResult]
  /\ now = 0
  /\ probe \in PriceProbes

ApplyPricing ==
  /\ probe' \in PriceProbes
  /\ UNCHANGED <<db, tx, lock, pc, req, loc, result, now, db0>>

SpecPrice == InitPrice /\ [][ApplyPricing]_vars

TypeOK ==
  /\ lock \in 0..NumProcs
  /\ now \in Instants
  /\ \A p \in Procs : result[p].status \in {0, 200, 400, 404, 409, 422, 500}

\* ================================================================ claims
RowOf(r) == Row(r.flight_id, r.seat_class)

\* p's transaction commits in this step
Committing(p) ==
  pc[p] = "commit" /\ pc'[p] = "done" /\ result'[p].status = 200

InTxLabels ==
  WriteLabels \cup {"c_flight", "c_seat", "c_check", "x_booking", "x_flight", "x_seat"}

RECURSIVE SumSeats(_)
SumSeats(S) ==
  IF S = {} THEN 0
  ELSE LET p == CHOOSE q \in S : TRUE
       IN req[p].seats_count + SumSeats(S \ {p})

Booked(r) ==
  {p \in Procs : req[p].op = "create" /\ result[p].status = 200 /\ RowOf(req[p]) = r}

\* ---- C1: every inventory row keeps 0 <= available_seats <= initial_inventory,
\* and available_seats changes only in the step that commits a booking or a
\* cancellation transaction.
SeatsWithinBounds ==
  \A r \in DOMAIN db.seats :
    /\ 0 <= db.seats[r].available_seats
    /\ db.seats[r].available_seats <= db.seats[r].initial_inventory

C1_InventoryBounds ==
  /\ []SeatsWithinBounds
  /\ [][db'.seats # db.seats =>
          \E p \in Procs : Committing(p) /\ db' = tx[p]]_vars

\* a booking has committed, and then its cancellation
C1_Witness ==
  \E p, q \in Procs :
    /\ req[p].op = "create" /\ result[p].status = 200
    /\ req[q].op = "cancel" /\ result[q].status = 200
    /\ result[q].booking_id = result[p].booking_id
    /\ db.bookings[result[p].booking_id].status = "Cancelled"

\* ---- C2: N parallel one-seat bookings on a row of capacity C
\* the requests of S are well-formed one-seat bookings on row r, all have
\* returned, and there is no other
ParallelOn(S, r) ==
  /\ S # {}
  /\ \A p \in Procs :
       IF p \in S
       THEN /\ pc[p] = "done"
            /\ req[p].op = "create"
            /\ result[p].status # 422
            /\ RowOf(req[p]) = r
            /\ req[p].seats_count = 1
       ELSE pc[p] = "idle"

WithStatus(S, status) == Cardinality({p \in S : result[p].status = status})

StoreNeverFailed ==
  \A p \in Procs :
    result[p].detail \notin {"store failure", "store failure after a write"}

\* C2 as stated (and granting that the store itself did not fail): exactly
\* min(N,C) successes, N - min(N,C) Conflict failures, and final
\* available_seats = C - successes.
C2_Original ==
  \A r \in Rows : \A S \in SUBSET Procs :
    (ParallelOn(S, r) /\ StoreNeverFailed) =>
      LET N == Cardinality(S)
          C == db0.seats[r].available_seats
      IN /\ WithStatus(S, 200) = Min(N, C)
         /\ WithStatus(S, 409) = N - Min(N, C)
         /\ db.seats[r].available_seats = C - WithStatus(S, 200)

\* C2 amended: every attempt ends as a success, a Conflict (409) or an Internal
\* error (500: lock wait timed out, store failure); final available_seats =
\* C - successes; successes <= min(N,C); a Conflict occurs only once the capacity
\* is sold out; and when no attempt ends Internal there are exactly min(N,C)
\* successes and N - min(N,C) Conflicts.
C2_ParallelBookings ==
  \A r \in Rows : \A S \in SUBSET Procs :
    ParallelOn(S, r) =>
      LET N == Cardinality(S)
          C == db0.seats[r].available_seats
          s == WithStatus(S, 200)
          k == WithStatus(S, 409)
          t == WithStatus(S, 500)
      IN /\ s + k + t = N
         /\ db.seats[r].available_seats = C - s
         /\ s <= Min(N, C)
         /\ k > 0 => s = C
         /\ t = 0 => (s = Min(N, C) /\ k = N - Min(N, C))

\* all connections booked one seat on a row with fewer seats than requests:
\* one succeeded, one got the Conflict
C2_Witness ==
  \E r \in Rows :
    /\ ParallelOn(Procs, r)
    /\ db0.seats[r].available_seats >= 1
    /\ WithStatus(Procs, 200) >= 1
    /\ WithStatus(Procs, 409) >= 1

\* ---- C3: with no cancellation, after the successful bookings of sizes s1..sk
\* on a row its available_seats is its initial value minus sum(si), and is not
\* negative.
NoCancellation == \A p \in Procs : req[p].op # "cancel"

C3_SeatsAfterBookings ==
  NoCancellation =>
    \A r \in Rows :
      /\ db.seats[r].available_seats =
           db0.seats[r].available_seats - SumSeats(Booked(r))
      /\ db.seats[r].available_seats >= 0

\* two one-seat bookings succeeded on one row
C3_Witness ==
  /\ NoCancellation
  /\ \E r \in Rows :
       /\ Cardinality(Booked(r)) = 2
       /\ \E p \in Booked(r) : req[p].seats_count = 1

\* ---- C4: a booking request for more seats than the row has (the value its
\* transaction reads, which is the committed value) ends in Conflict (409), books
\* nothing and leaves the store unchanged.
C4_ConflictLeavesStore ==
  [][\A p \in Procs :
       (/\ pc[p] = "c_check"
        /\ pc'[p] # pc[p]
        /\ req[p].seats_count > db.seats[RowOf(req[p])].available_seats)
       => /\ pc'[p] = "done"
          /\ result'[p].status = 409
          /\ db' = db
          /\ tx'[p] = NoTx]_vars

\* two seats were asked of a row that has one left: Conflict, the seat remains
C4_Witness ==
  \E p \in Procs :
    /\ result[p].status = 409
    /\ req[p].seats_count = 2
    /\ db.seats[RowOf(req[p])].available_seats = 1
    /\ db = db0

\* ---- C5: a CreateBooking changes the store in one step only, its commit, and
\* that step adds exactly one Confirmed booking, one passenger row per supplied
\* passenger, the decrement of the target row by seats_count, one positive
\* transaction of the booking's final_price and one CREATED history entry; every
\* other step of a CreateBooking leaves the store as it is.
CreateEffect(p) ==
  LET b == Len(db.bookings) + 1
      r == RowOf(req[p])
      n == req[p].seats_count
  IN /\ Len(db'.bookings) = b
     /\ \A i \in 1..(b - 1) : db'.bookings[i] = db.bookings[i]
     /\ db'.bookings[b].status = "Confirmed"
     /\ db'.bookings[b].seats_booked = n
     /\ RowOf(db'.bookings[b]) = r
     /\ db'.bookings[b].final_price > 0
     /\ Len(db'.passengers) = Len(db.passengers) + req[p].passengers
     /\ \A i \in 1..Len(db'.passengers) :
          db'.passengers[i] = IF i <= Len(db.passengers) THEN db.passengers[i]
                              ELSE [booking_id |-> b]
     /\ db'.seats = [db.seats EXCEPT ![r].available_seats = @ - n]
     /\ db'.transactions =
          Append(db.transactions,
                 [booking_id |-> b, amount |-> db'.bookings[b].final_price,
                  payment_method |-> "Credit Card"])
     /\ db'.history = Append(db.history, [booking_id |-> b, action |-> "CREATED"])
     /\ result'[p].booking_id = b

C5_AtomicCreate ==
  [][\A p \in Procs :
       (req[p].op = "create" /\ pc'[p] # pc[p]) =>
          IF result'[p].status = 200 THEN CreateEffect(p) ELSE db' = db]_vars

\* a booking of two seats with two passengers has committed
C5_Witness ==
  \E p \in Procs :
    /\ req[p].op = "create" /\ result[p].status = 200
    /\ req[p].seats_count = 2 /\ req[p].passengers = 2
    /\ Len(db.bookings) = Len(db0.bookings) + 1
    /\ Len(db.passengers) = Len(db0.passengers) + 2

\* ---- C6: from BEGIN to its response a transaction that does not commit leaves
\* the store untouched; when it fails (also after writes) its writes are dropped,
\* so the store is as it was before the call.
C6_RollbackRestores ==
  [][\A p \in Procs :
       (pc[p] \in InTxLabels /\ ~Committing(p)) =>
          /\ db' = db
          /\ pc'[p] = "done" => (tx'[p] = NoTx /\ lock' # p)]_vars

\* a request failed in the store with writes pending, and the store is still
\* the initial one
C6_Witness ==
  \E p \in Procs :
    /\ result[p].status = 500
    /\ result[p].detail = "store failure after a write"
    /\ db = db0

\* ---- C7: the commit of a cancellation of a Confirmed booking sets its status
\* to Cancelled and its row's available_seats to
\* min(available_seats + seats_booked, initial_inventory).
C7_CancelRestoresSeats ==
  [][\A p \in Procs :
       (req[p].op = "cancel" /\ Committing(p)) =>
          LET b == req[p].booking_id
              r == RowOf(db.bookings[b])
          IN /\ db.bookings[b].status = "Confirmed"
             /\ db'.bookings[b].status = "Cancelled"
             /\ db'.seats[r].available_seats =
                  Min(db.seats[r].available_seats + db.bookings[b].seats_booked,
                      db.seats[r].initial_inventory)]_vars

\* the booking found in the store was cancelled where the sum exceeded the
\* initial inventory: the row is at its initial inventory
C7_Witness ==
  \E p \in Procs :
    /\ req[p].op = "cancel" /\ result[p].status = 200
    /\ req[p].booking_id = 1
    /\ db0.bookings[1].status = "Confirmed"
    /\ db.bookings[1].status = "Cancelled"
    /\ db0.seats[<<1, "Economy">>].available_seats = 1
    /\ db.seats[<<1, "Economy">>].available_seats = 2

\* ---- C8: CancelBooking of a booking that is already Cancelled returns success
\* with refund percentage 0 and amount 0 and changes nothing, each time.
C8_RecancelIsNoOp ==
  [][\A p \in Procs :
       (/\ pc[p] = "x_booking"
        /\ pc'[p] # pc[p]
        /\ req[p].booking_id \in 1..Len(db.bookings)
        /\ db.bookings[req[p].booking_id].status = "Cancelled")
       => /\ pc'[p] = "done"
          /\ result'[p].status = 200
          /\ result'[p].refund_percentage = 0
          /\ result'[p].refund_amount = 0
          /\ db' = db
          /\ tx'[p] = NoTx]_vars

\* the same Cancelled booking was cancelled again twice
C8_Witness ==
  /\ \A p \in Procs :
       /\ req[p].op = "cancel" /\ req[p].booking_id = 1
       /\ result[p].status = 200
       /\ result[p].refund_percentage = 0 /\ result[p].refund_amount = 0
  /\ db0.bookings # <<>>
  /\ db0.bookings[1].status = "Cancelled"
  /\ db = db0

\* ---- C9: a booking is created Confirmed, its only transition is
\* Confirmed -> Cancelled, and no booking disappears.
C9_StatusTransitions ==
  [][/\ Len(db'.bookings) >= Len(db.bookings)
     /\ \A i \in 1..Len(db.bookings) :
          \/ db'.bookings[i].status = db.bookings[i].status
          \/ db.bookings[i].status = "Confirmed" /\ db'.bookings[i].status = "Cancelled"
     /\ \A i \in (Len(db.bookings) + 1)..Len(db'.bookings) :
          db'.bookings[i].status = "Confirmed"]_vars

\* a booking made here was cancelled afterwards
C9_Witness ==
  \E i \in 1..Len(db.bookings) :
    /\ i > Len(db0.bookings)
    /\ db.bookings[i].status = "Cancelled"

\* ---- C10: refund percentage by hours to departure h: h > 72 gives 100,
\* 24 <= h < 72 gives 75, 2 <= h < 24 gives 50, h < 2 gives 0, and the value is
\* one of 0, 50, 75, 100.
C10_RefundBands ==
  LET n == probe.num
      d == probe.den
      v == probe.value
  IN /\ n > 72 * d => v = 100
     /\ (24 * d <= n /\ n < 72 * d) => v = 75
     /\ (2 * d <= n /\ n < 24 * d) => v = 50
     /\ n < 2 * d => v = 0
     /\ v \in {0, 50, 75, 100}

\* ten hours before departure the refund is 50
C10_Witness ==
  /\ probe.num = 10 * probe.den
  /\ probe.den = TicksPerHour
  /\ probe.value = 50

\* a/b is within half a unit of the integer v: v is a / b rounded (b > 0)
IsRounded(v, a, b) == 2 * v * b - 2 * a <= b /\ 2 * a - 2 * v * b <= b

\* ---- C11: the commit of a cancellation of a Confirmed booking returns
\* refund_amount = round(final_price * refund_percentage / 100, 2) of the
\* booking's stored final_price, and records it: in the CANCELLED history entry
\* and, when it is positive, as a negative REFUND transaction.
C11_RefundAmount ==
  [][\A p \in Procs :
       (req[p].op = "cancel" /\ Committing(p)) =>
          LET b == req[p].booking_id
              pct == result'[p].refund_percentage
              amt == result'[p].refund_amount
          IN /\ IsRounded(amt, db.bookings[b].final_price * pct, 100)
             /\ db'.history =
                  Append(db.history,
                         [booking_id |-> b, action |-> "CANCELLED",
                          refund_percentage |-> pct, refund_amount |-> amt])
             /\ db'.transactions =
                  IF amt > 0
                  THEN Append(db.transactions,
                              [booking_id |-> b, amount |-> 0 - amt,
                               payment_method |-> "REFUND"])
                  ELSE db.transactions]_vars

\* the booking of final_price 300.00 was cancelled ten hours before departure:
\* 50% and 150.00
C11_Witness ==
  \E p \in Procs :
    /\ req[p].op = "cancel" /\ req[p].booking_id = 1
    /\ db0.bookings # <<>>
    /\ db0.bookings[1].final_price = 30000
    /\ Flights[1].departure_time - now = 10
    /\ result[p].status = 200
    /\ result[p].refund_percentage = 50
    /\ result[p].refund_amount = 15000
    /\ db.transactions[Len(db.transactions)].amount = 0 - 15000

\* ---- C12: the price is base_price * seat_class_multiplier *
\* occupancy_multiplier * time_multiplier * demand_multiplier rounded to 2
\* decimals; base 100, class multiplier 1.0, 100 seats of which 20 are free,
\* departure in 12 hours and demand medium give 300.00.
C12_PriceFormula ==
  /\ IsRounded(probe.value,
               probe.base_price * probe.multiplier * probe.occupancy_multiplier
                 * probe.time_multiplier * probe.demand_multiplier,
               1600)
  /\ (/\ probe.base_price = 100 /\ probe.multiplier = 20
      /\ probe.total_seats = 100 /\ probe.available_seats = 20
      /\ probe.hours = 12 /\ probe.demand_level = "medium")
     => probe.value = 30000

\* the example of the claim: 100 x 1.0 x 1.5 x 2.0 x 1.0
C12_Witness ==
  /\ probe.base_price = 100 /\ probe.multiplier = 20
  /\ probe.total_seats = 100 /\ probe.available_seats = 20
  /\ probe.hours = 12 /\ probe.demand_level = "medium"
  /\ probe.occupancy_multiplier = 30 /\ probe.time_multiplier = 40
  /\ probe.value = 30000

\* ---- C13: a booking is priced on the available_seats its own transaction
\* read under the write lock, which is the committed value before its decrement
\* and is still the committed value when it commits; the stored final_price is
\* price_per_seat * seats_count.
C13_PriceFromOwnRead ==
  [][\A p \in Procs :
       req[p].op = "create" =>
         LET r == RowOf(req[p])
             f == Flights[req[p].flight_id]
             n == req[p].seats_count
         IN /\ (pc[p] = "c_seat" /\ pc'[p] = "c_check") =>
                 /\ lock = p
                 /\ loc'[p].available_seats = db.seats[r].available_seats
            /\ (pc[p] = "c_check" /\ pc'[p] = "c_ins_booking") =>
                 /\ loc'[p].price_per_seat =
                      calculate_dynamic_price(f.base_price, db.seats[r].price_multiplier,
                                              db.seats[r].available_seats, f.total_seats,
                                              f.departure_time - now, "medium")
                 /\ IsRounded(loc'[p].total_price, loc'[p].price_per_seat * n, 1)
            /\ Committing(p) =>
                 /\ loc[p].available_seats = db.seats[r].available_seats
                 /\ db'.seats[r].available_seats = db.seats[r].available_seats - n
                 /\ db'.bookings[Len(db'.bookings)].final_price = loc[p].total_price
                 /\ loc[p].total_price = loc[p].price_per_seat * n]_vars

\* two one-seat bookings of the same row at the same hour were charged
\* different prices: the second was priced on the seats the first had left
C13_Witness ==
  /\ now = 0
  /\ db0.bookings = <<>>
  /\ Len(db.bookings) = 2
  /\ RowOf(db.bookings[1]) = RowOf(db.bookings[2])
  /\ db.bookings[1].seats_booked = 1 /\ db.bookings[2].seats_booked = 1
  /\ db.bookings[1].final_price < db.bookings[2].final_price

\* ---- C14: the Passenger rows of a booking
PassengerCount(store, b) ==
  Cardinality({i \in 1..Len(store.passengers) : store.passengers[i].booking_id = b})

PassengersImmutable ==
  [][\A i \in 1..Len(db.passengers) :
       /\ i <= Len(db'.passengers)
       /\ db'.passengers[i] = db.passengers[i]]_vars

\* C14 as stated: every booking has as many Passenger rows as seats_booked.
C14_Original ==
  \A b \in 1..Len(db.bookings) :
    PassengerCount(db, b) = db.bookings[b].seats_booked

\* C14 amended: a booking made from a request that carried a passenger list has
\* as many Passenger rows as seats_booked, one made from a request without the
\* list has none, and Passenger rows are never changed or removed afterwards.
C14_PassengerRows ==
  /\ [](\A p \in Procs :
          (req[p].op = "create" /\ result[p].status = 200) =>
             LET b == result[p].booking_id
             IN PassengerCount(db, b) =
                  IF req[p].passengers = 0 THEN 0 ELSE db.bookings[b].seats_booked)
  /\ PassengersImmutable

\* a two-seat booking with its two passengers was made and then cancelled: its
\* two rows are still there
C14_Witness ==
  \E p, q \in Procs :
    /\ req[p].op = "create" /\ result[p].status = 200
    /\ req[p].seats_count = 2 /\ req[p].passengers = 2
    /\ req[q].op = "cancel" /\ result[q].status = 200
    /\ req[q].booking_id = result[p].booking_id
    /\ db.bookings[result[p].booking_id].status = "Cancelled"
    /\ PassengerCount(db, result[p].booking_id) = 2

\* ---- C15: a CreateBooking body with seats_count outside [1,9], with a
\* passenger list whose length differs from seats_count, or with a seat class
\* outside the known set is answered Invalid (422) in the step it arrives: no
\* connection is opened for it, no lock is taken and the store is not touched.
Malformed(r) ==
  \/ r.seats_count < 1
  \/ r.seats_count > 9
  \/ r.passengers # 0 /\ r.passengers # r.seats_count
  \/ r.seat_class \notin {"Economy", "Business", "First"}

C15_InvalidRejected ==
  /\ [](\A p \in Procs :
          (req[p].op = "create" /\ Malformed(req[p])) =>
             /\ pc[p] = "done"
             /\ result[p].status = 422
             /\ tx[p] = NoTx
             /\ lock # p)
  /\ [][\A p \in Procs :
          (req'[p].op = "create" /\ Malformed(req'[p]) /\ req[p] = NoReq) =>
             /\ pc[p] = "idle"
             /\ db' = db /\ tx' = tx /\ lock' = lock]_vars

\* a body of ten seats and a one-seat body with two passengers were rejected,
\* the store is the initial one
C15_Witness ==
  \E p, q \in Procs :
    /\ result[p].status = 422 /\ result[q].status = 422
    /\ req[p].seats_count = 10
    /\ req[q].passengers = 2 /\ req[q].seats_count = 1
    /\ db = db0

\* ---- C16: CreateBooking answers NotFound (404) when the flight does not
\* exist, and NotFound when the flight exists but has no inventory row for the
\* seat class; the flight is checked first, then the seat class, then the
\* capacity; a NotFound leaves the store unchanged.
FlightMissing(r) == r.flight_id \notin DOMAIN Flights

SeatRowMissing(r) == RowOf(r) \notin DOMAIN db.seats

C16_CreateNotFound ==
  [][\A p \in Procs :
       (/\ req[p].op = "create"
        /\ pc[p] \in {"c_flight", "c_seat", "c_check"}
        /\ pc'[p] # pc[p]) =>
          /\ FlightMissing(req[p]) =>
               /\ pc[p] = "c_flight" /\ pc'[p] = "done"
               /\ result'[p].status = 404
               /\ result'[p].detail = "Flight not found"
          /\ (~FlightMissing(req[p]) /\ SeatRowMissing(req[p])) =>
               /\ pc[p] \in {"c_flight", "c_seat"}
               /\ pc[p] = "c_seat" =>
                    /\ pc'[p] = "done"
                    /\ result'[p].status = 404
                    /\ result'[p].detail = "Seat class not available"
          /\ result'[p].status = 409 =>
               /\ pc[p] = "c_check"
               /\ ~FlightMissing(req[p]) /\ ~SeatRowMissing(req[p])
          /\ result'[p].status = 404 =>
               /\ db' = db /\ tx'[p] = NoTx /\ lock' = 0]_vars

\* one booking asked for a flight that does not exist and a class it would not
\* have, the other for a class its flight does not have: both NotFound
C16_Witness ==
  \E p, q \in Procs :
    /\ req[p].op = "create" /\ req[p].flight_id = 3 /\ req[p].seat_class = "Business"
    /\ result[p].status = 404 /\ result[p].detail = "Flight not found"
    /\ req[q].op = "create" /\ req[q].flight_id = 2 /\ req[q].seat_class = "Business"
    /\ result[q].status = 404 /\ result[q].detail = "Seat class not available"
    /\ db = db0

\* ---- C17: CancelBooking answers NotFound (404) when the booking does not
\* exist, when the booking's flight row is missing, or when the booking's
\* inventory row is missing; the booking keeps its status and the store is
\* unchanged.
C17_CancelNotFound ==
  [][\A p \in Procs :
       (/\ req[p].op = "cancel"
        /\ pc[p] \in {"x_booking", "x_flight", "x_seat"}
        /\ pc'[p] # pc[p]) =>
          LET b == req[p].booking_id
              exists == b \in 1..Len(db.bookings)
          IN /\ (pc[p] = "x_booking" /\ ~exists) =>
                  result'[p].status = 404
             /\ (/\ pc[p] = "x_flight" /\ exists
                 /\ FlightMissing(db.bookings[b])) =>
                  result'[p].status = 404
             /\ (/\ pc[p] = "x_seat" /\ exists
                 /\ SeatRowMissing(db.bookings[b])) =>
                  result'[p].status = 404
             /\ result'[p].status = 404 =>
                  /\ pc'[p] = "done"
                  /\ db' = db /\ tx'[p] = NoTx /\ lock' = 0
                  /\ exists => db'.bookings[b].status = db.bookings[b].status]_vars

\* the cancellation of a Confirmed booking whose inventory row is missing was
\* answered NotFound and the booking is still Confirmed; another cancellation
\* named a booking that does not exist
C17_Witness ==
  \E p, q \in Procs :
    /\ req[p].op = "cancel" /\ req[p].booking_id = 1
    /\ result[p].status = 404
    /\ result[p].detail = "Seat configuration not found"
    /\ db.bookings[1].status = "Confirmed"
    /\ req[q].op = "cancel" /\ req[q].booking_id = 2
    /\ result[q].status = 404 /\ result[q].detail = "Booking not found"
    /\ db = db0

\* ---- C18: booking and cancellation transactions on the same row are
\* serialized: at most one connection at a time is between BEGIN IMMEDIATE and
\* its commit or rollback, it holds the write lock, and what it commits is its
\* own change applied to the committed value (no update is lost).
InTransaction(p) == pc[p] \in InTxLabels

OneWriter ==
  \A p, q \in Procs :
    (InTransaction(p) /\ InTransaction(q)) => (p = q /\ lock = p)

NoLostUpdate ==
  \A p \in Procs :
    Committing(p) =>
      /\ Len(db'.bookings) >= Len(db.bookings)
      /\ IF req[p].op = "create"
         THEN LET r == RowOf(req[p]) IN
              /\ db'.seats = [db.seats EXCEPT ![r].available_seats =
                                                 @ - req[p].seats_count]
              /\ \A i \in 1..Len(db.bookings) : db'.bookings[i] = db.bookings[i]
         ELSE LET b == req[p].booking_id
                  r == RowOf(db.bookings[b])
              IN /\ db'.seats =
                      [db.seats EXCEPT ![r].available_seats =
                         Min(@ + db.bookings[b].seats_booked,
                             db.seats[r].initial_inventory)]
                 /\ \A i \in 1..Len(db.bookings) :
                      i # b => db'.bookings[i] = db.bookings[i]

C18_Serialized == []OneWriter /\ [][NoLostUpdate]_vars

\* a booking and the cancellation of an earlier booking of the same row have
\* both committed
C18_Witness ==
  \E p, q \in Procs :
    /\ req[p].op = "create" /\ result[p].status = 200
    /\ req[q].op = "cancel" /\ result[q].status = 200
    /\ req[q].booking_id = 1 /\ result[p].booking_id = 2
    /\ RowOf(req[p]) = RowOf(db.bookings[1])
    /\ db.bookings[1].status = "Cancelled"
    /\ db.bookings[2].status = "Confirmed"

\* ---- C19: two bookings of different rows
OtherRows(p, q) ==
  /\ p # q
  /\ req[p].op = "create" /\ req[q].op = "create"
  /\ RowOf(req[p]) # RowOf(req[q])

\* C19 as stated, in the part a finite run refutes: a booking cannot be failed
\* by the lock that a booking of a different row holds.
C19_Original ==
  [][\A p, q \in Procs :
       (/\ lock = q /\ req[q].op = "create" /\ InTransaction(q)
        /\ pc[p] = "begin" /\ pc'[p] = "done"
        /\ req'[p].op = "create"
        /\ Row(req'[p].flight_id, req'[p].seat_class) # RowOf(req[q]))
       => result'[p].status # 500]_vars

\* C19 amended: two bookings of different rows are never inside their
\* transactions at the same time; while one holds the store's write lock the
\* other waits at BEGIN IMMEDIATE, and when the wait runs out it fails as
\* Internal (500) and changes nothing.
C19_DifferentRowsSerialized ==
  /\ [](\A p, q \in Procs :
          OtherRows(p, q) => ~(InTransaction(p) /\ InTransaction(q)))
  /\ [][\A p, q \in Procs :
          (/\ lock = q /\ req[q].op = "create" /\ InTransaction(q)
           /\ pc[p] = "begin" /\ pc'[p] # pc[p])
          => /\ pc'[p] = "done"
             /\ result'[p].status = 500
             /\ db' = db /\ lock' = q]_vars

\* a booking of one row committed; a booking of another row had met its lock
\* and failed
C19_Witness ==
  \E p, q \in Procs :
    /\ OtherRows(p, q)
    /\ result[q].status = 200
    /\ result[p].status = 500 /\ result[p].detail = "database is locked"

\* ---- C20: a request that finds the write lock taken for the whole bounded
\* wait fails as Internal (500) and changes nothing; every request whose handler
\* was called returns, with a success or an error.
Returned(p) ==
  pc[p] = "done" /\ result[p].status \in {200, 404, 409, 422, 500}

C20_BoundedWait ==
  /\ \A p \in Procs : (pc[p] = "begin") ~> Returned(p)
  /\ [][\A p \in Procs :
          (pc[p] = "begin" /\ lock # 0 /\ pc'[p] # pc[p]) =>
             /\ pc'[p] = "done"
             /\ result'[p].status \in {409, 500}
             /\ db' = db /\ tx'[p] = NoTx /\ lock' = lock]_vars

\* a cancellation met the lock of a booking and failed; the booking went on
\* and committed
C20_Witness ==
  \E p, q \in Procs :
    /\ req[p].op = "cancel"
    /\ result[p].status = 500 /\ result[p].detail = "database is locked"
    /\ req[q].op = "create" /\ result[q].status = 200
    /\ db # db0

\* the seats still available on flight f, over all its seat classes
FlightAvailable(store, f) ==
  LET Available(c) == IF Row(f, c) \in DOMAIN store.seats
                      THEN store.seats[Row(f, c)].available_seats ELSE 0
  IN  Available("Economy") + Available("Business")

\* the price of class c on flight f when the occupancy ratio is
\* (total_seats - FlightAvailable) / total_seats
FlightWidePrice(store, f, c) ==
  calculate_dynamic_price(Flights[f].base_price,
                          store.seats[Row(f, c)].price_multiplier,
                          FlightAvailable(store, f), Flights[f].total_seats,
                          Flights[f].departure_time - now, "medium")

\* ---- C21: the occupancy ratio that prices a flight in CreateBooking, search
\* and quote is the fraction of the flight's total seats sold over all its seat
\* classes: (total_seats - seats still available on the flight) / total_seats.
C21_FlightWideOccupancy ==
  [][\A p \in Procs :
       /\ (pc[p] = "c_check" /\ pc'[p] = "c_ins_booking") =>
            loc'[p].price_per_seat =
              FlightWidePrice(tx[p], req[p].flight_id, req[p].seat_class)
       /\ (pc[p] = "s_seat" /\ pc'[p] = "s_seat"
           /\ Len(loc'[p].flights) > Len(loc[p].flights)) =>
            loc'[p].flights[Len(loc'[p].flights)].dynamic_price =
              FlightWidePrice(db, loc[p].rows[loc[p].i], req[p].seat_class)
       /\ (pc[p] = "q_seat" /\ result'[p].status = 200) =>
            result'[p].dynamic_price =
              FlightWidePrice(db, req[p].flight_id, req[p].seat_class)]_vars

\* ---- C22: pricing a flight whose total_seats is 0 is an error: CreateBooking
\* on such a flight fails, produces no price and no booking, and leaves the
\* store unchanged.
ZeroSeats(r) ==
  r.op = "create" /\ r.flight_id \in FlightIds /\ Flights[r.flight_id].total_seats = 0

C22_ZeroSeatsFails ==
  /\ [](\A p \in Procs :
          ZeroSeats(req[p]) =>
             /\ pc[p] \in {"c_flight", "c_seat", "c_check", "done"}
             /\ loc[p].price_per_seat = 0 /\ loc[p].total_price = 0
             /\ tx[p] \in {db, NoTx}
             /\ pc[p] = "done" => result[p].status \in {409, 500})
  /\ [](\A b \in DOMAIN db.bookings :
          db.bookings[b].flight_id \in FlightIds =>
             Flights[db.bookings[b].flight_id].total_seats # 0)
  /\ [][\A p \in Procs :
          (ZeroSeats(req[p]) /\ pc'[p] # pc[p]) => db' = db]_vars

\* a booking of the one Economy seat of flight 6 came to the price and failed
C22_Witness ==
  \E p \in Procs :
    /\ ZeroSeats(req[p])
    /\ RowOf(req[p]) \in DOMAIN db.seats
    /\ db.seats[RowOf(req[p])].available_seats >= req[p].seats_count
    /\ pc[p] = "done"
    /\ result[p].status = 500 /\ result[p].detail = "division by zero"

\* ---- C23: searchFlights returns exactly the matching flights that have an
\* inventory row for the requested seat class; when sort_by is price, duration
\* or departure_time the result is in ascending order of that key, flights of
\* equal key staying in their original relative order.
SearchedFlights(r) ==
  {f \in FlightIds :
     /\ Flights[f].origin = r.origin /\ Flights[f].destination = r.destination
     /\ (r.departure_date = "2025-01-05") =>
           Flights[f].departure_time \in 96..119
     /\ (r.departure_date = "2025-01-04") =>
           Flights[f].departure_time \in 72..95
     /\ Row(f, r.seat_class) \in DOMAIN db.seats}

KeyOf(x, sort_by) ==
  IF sort_by = "price" THEN x.dynamic_price
  ELSE IF sort_by = "duration" THEN x.arrival_time - x.departure_time
  ELSE x.departure_time

PlaceOf(flights, x) == CHOOSE i \in 1..Len(flights) : flights[i] = x

SearchReturned(p) ==
  /\ req[p].op = "search" /\ pc[p] = "done" /\ result[p].status = 200

C23_SearchResult ==
  [][\A p \in Procs :
       (pc[p] = "s_seat" /\ SearchReturned(p)') =>
          LET out == result'[p].flights
              fetched == loc[p].flights
              s == req[p].sort_by
          IN  /\ {out[k].flight_id : k \in 1..Len(out)} = SearchedFlights(req[p])
              /\ Len(out) = Cardinality(SearchedFlights(req[p]))
              /\ Len(out) = Len(fetched)
              /\ {out[k] : k \in 1..Len(out)} = {fetched[k] : k \in 1..Len(fetched)}
              /\ s \in {"price", "duration", "departure_time"} =>
                   \A j, k \in 1..Len(out) :
                      j < k =>
                        /\ KeyOf(out[j], s) <= KeyOf(out[k], s)
                        /\ KeyOf(out[j], s) = KeyOf(out[k], s) =>
                              PlaceOf(fetched, out[j]) < PlaceOf(fetched, out[k])
              /\ s \notin {"price", "duration", "departure_time"} =>
                   out = fetched]_vars

\* a search in Economy sorted by price, made once the seat of flight 1 was
\* given back: flight 5 is the cheapest and comes first, flights 1 and 4 cost
\* the same and stay in the order they were fetched in
C23_Witness ==
  \E p \in Procs :
    /\ SearchReturned(p)
    /\ req[p].sort_by = "price" /\ req[p].seat_class = "Economy"
    /\ Len(result[p].flights) = 3
    /\ result[p].flights[1].flight_id = 5
    /\ result[p].flights[2].flight_id = 1
    /\ result[p].flights[3].flight_id = 4
    /\ result[p].flights[2].dynamic_price = result[p].flights[3].dynamic_price

\* ---- C24 (as stated): the refund percentage is a non-increasing step function
\* of the hours to departure: for h1 <= h2, refund_percentage(h1) >=
\* refund_percentage(h2).
C24_Original ==
  [][(probe.den = probe'.den /\ probe.num <= probe'.num) =>
        probe.value >= probe'.value]_vars

\* ---- C24 (amended): the refund percentage is a non-decreasing step function
\* of the hours to departure across the breakpoints 2, 24 and 72: for
\* h1 <= h2, refund_percentage(h1) <= refund_percentage(h2), and the two differ
\* only when one of the breakpoints lies between h1 and h2.
C24_RefundMonotone ==
  [][(probe.den = probe'.den /\ probe.num <= probe'.num) =>
        /\ probe.value <= probe'.value
        /\ probe.value # probe'.value =>
              \E b \in {2, 24, 72} :
                 probe.num <= b * probe.den /\ b * probe.den <= probe'.num]_vars

\* a hundred hours before departure the refund is 100
C24_Witness ==
  /\ probe.num = 100 * probe.den
  /\ probe.den = TicksPerHour
  /\ probe.value = 100

\* ---- C25: the occupancy multiplier is 1.5 for a ratio >= 0.8, 1.35 for
\* 0.6 <= ratio < 0.8, 1.15 for 0.4 <= ratio < 0.6 and 1.0 below 0.4, and is
\* non-decreasing in the occupancy ratio.
ProbeSold == probe.total_seats - probe.available_seats

C25_OccupancyBands ==
  /\ [](LET s == ProbeSold
            t == probe.total_seats
            m == probe.occupancy_multiplier
        IN  /\ 10 * s >= 8 * t => m = 30
            /\ (6 * t <= 10 * s /\ 10 * s < 8 * t) => m = 27
            /\ (4 * t <= 10 * s /\ 10 * s < 6 * t) => m = 23
            /\ 10 * s < 4 * t => m = 20)
  /\ [][ProbeSold * probe'.total_seats <= ProbeSold' * probe.total_seats =>
           probe.occupancy_multiplier <= probe'.occupancy_multiplier]_vars

\* 59 seats of 100 sold: one short of 0.6, the multiplier is still 1.15
C25_Witness ==
  /\ probe.total_seats = 100 /\ probe.available_seats = 41
  /\ probe.occupancy_multiplier = 23

\* ---- C26: the time multiplier, by the days d until departure, is 2.0 for
\* d <= 1, 1.8 for 1 < d <= 3, 1.5 for 3 < d <= 7, 1.25 for 7 < d <= 14, 1.1
\* for 14 < d <= 30 and 1.0 for d > 30, 2.0 for a departure already in the
\* past, and is non-increasing as d increases.
C26_TimeBands ==
  /\ [](LET h == probe.hours
            m == probe.time_multiplier
        IN  /\ h <= 24 => m = 40
            /\ (24 < h /\ h <= 3 * 24) => m = 36
            /\ (3 * 24 < h /\ h <= 7 * 24) => m = 30
            /\ (7 * 24 < h /\ h <= 14 * 24) => m = 25
            /\ (14 * 24 < h /\ h <= 30 * 24) => m = 22
            /\ h > 30 * 24 => m = 20)
  /\ [][probe.hours <= probe'.hours =>
           probe.time_multiplier >= probe'.time_multiplier]_vars

\* five hours after departure the multiplier is 2.0
C26_Witness ==
  /\ probe.hours = 0 - 5
  /\ probe.time_multiplier = 40

\* ---- C27: in the booking, search, detail and quote flows the demand level is
\* always "medium" (demand multiplier 1.0): the price they produce is
\* base_price * class multiplier * occupancy multiplier * time multiplier
\* rounded, whatever determine_demand_level would say.
MediumPrice(v, f, price_multiplier, available_seats) ==
  IsRounded(v,
            Flights[f].base_price * price_multiplier
              * calculate_occupancy_multiplier(Flights[f].total_seats - available_seats,
                                               Flights[f].total_seats)
              * calculate_time_multiplier(Flights[f].departure_time - now) * 20,
            1600)

C27_DemandMedium ==
  [][\A p \in Procs :
       /\ (pc[p] = "c_check" /\ pc'[p] = "c_ins_booking") =>
            MediumPrice(loc'[p].price_per_seat, req[p].flight_id,
                        loc[p].price_multiplier, loc[p].available_seats)
       /\ (pc[p] = "s_seat" /\ pc'[p] = "s_seat"
           /\ Len(loc'[p].flights) > Len(loc[p].flights)) =>
            LET x == loc'[p].flights[Len(loc'[p].flights)]
                r == Row(x.flight_id, req[p].seat_class)
            IN  MediumPrice(x.dynamic_price, x.flight_id,
                            db.seats[r].price_multiplier, x.available_seats)
       /\ (pc[p] \in {"d_seats", "q_seat"} /\ result'[p].status = 200) =>
            LET r == Row(req[p].flight_id, req[p].seat_class)
            IN  MediumPrice(result'[p].dynamic_price, req[p].flight_id,
                            db.seats[r].price_multiplier,
                            result'[p].available_seats)]_vars

\* a quote of flight 1 in Economy ten hours before departure, when
\* determine_demand_level says "high": 100 x 1.0 x 1.35 x 2.0 x 1.0
C27_Witness ==
  \E p \in Procs :
    /\ req[p].op = "pricing" /\ pc[p] = "done" /\ result[p].status = 200
    /\ req[p].flight_id = 1 /\ req[p].seat_class = "Economy"
    /\ result[p].available_seats = 1
    /\ determine_demand_level(result[p].total_seats - result[p].available_seats,
                              result[p].total_seats, 0,
                              Flights[1].departure_time - now) = "high"
    /\ result[p].dynamic_price = 27000

\* ---- C28: CancelBooking of a Confirmed booking inserts a negative Transaction
\* (amount = -refund_amount) if and only if refund_amount > 0; with a refund of
\* 0 it inserts no Transaction but still sets the status to Cancelled, restores
\* the inventory and writes the CANCELLED history entry.
Refunds(store, b) ==
  {i \in DOMAIN store.transactions :
     store.transactions[i].booking_id = b /\ store.transactions[i].amount <= 0}

Cancellations(store, b) ==
  {i \in DOMAIN store.history :
     store.history[i].booking_id = b /\ store.history[i].action = "CANCELLED"}

C28_RefundTransaction ==
  [][\A p \in Procs :
       (req[p].op = "cancel" /\ Committing(p)) =>
          LET b == req[p].booking_id
              r == RowOf(db.bookings[b])
              amt == result'[p].refund_amount
              n == Len(db.transactions)
          IN /\ amt >= 0
             /\ amt > 0 <=> Len(db'.transactions) = n + 1
             /\ amt = 0 <=> db'.transactions = db.transactions
             /\ Refunds(db', b) # Refunds(db, b) <=> amt > 0
             /\ amt > 0 => /\ SubSeq(db'.transactions, 1, n) = db.transactions
                           /\ db'.transactions[n + 1].booking_id = b
                           /\ db'.transactions[n + 1].amount = 0 - amt
             /\ db.bookings[b].status = "Confirmed"
             /\ db'.bookings[b].status = "Cancelled"
             /\ db'.seats[r].available_seats >= db.seats[r].available_seats
             /\ db'.seats[r].available_seats =
                  Min(db.seats[r].available_seats + db.bookings[b].seats_booked,
                      db.seats[r].initial_inventory)
             /\ Cardinality(Cancellations(db', b)) =
                  Cardinality(Cancellations(db, b)) + 1]_vars

\* the one seat of flight 2 was booked and then cancelled an hour before
\* departure: no refund and no Transaction, the booking is Cancelled, the seat
\* is back and the history has its CANCELLED entry
C28_Witness ==
  \E p \in Procs :
    /\ req[p].op = "cancel" /\ pc[p] = "done" /\ result[p].status = 200
    /\ result[p].refund_amount = 0
    /\ req[p].booking_id \in DOMAIN db.bookings
    /\ req[p].booking_id \notin DOMAIN db0.bookings
    /\ db.bookings[req[p].booking_id].status = "Cancelled"
    /\ db.bookings[req[p].booking_id].flight_id = 2
    /\ Refunds(db, req[p].booking_id) = {}
    /\ Cancellations(db, req[p].booking_id) # {}
    /\ db.seats[<<2, "Economy">>].available_seats = 1

\* ---- C29: in every reachable state each booking has exactly one CREATED
\* history entry, exactly one CANCELLED entry if its status is Cancelled and
\* none if it is Confirmed; failed operations and cancellations of a booking
\* that is already Cancelled add no history entry.
Creations(store, b) ==
  {i \in DOMAIN store.history :
     store.history[i].booking_id = b /\ store.history[i].action = "CREATED"}

Finishing(p) == pc[p] # "done" /\ pc'[p] = "done"

C29_HistoryEntries ==
  /\ [](\A b \in DOMAIN db.bookings :
          /\ Cardinality(Creations(db, b)) = 1
          /\ db.bookings[b].status = "Cancelled" =>
                Cardinality(Cancellations(db, b)) = 1
          /\ db.bookings[b].status = "Confirmed" => Cancellations(db, b) = {})
  /\ [](\A i \in DOMAIN db.history : db.history[i].booking_id \in DOMAIN db.bookings)
  /\ [][\A p \in Procs :
          /\ (Finishing(p) /\ result'[p].status # 200) => db'.history = db.history
          /\ (/\ Finishing(p) /\ req'[p].op = "cancel"
              /\ req'[p].booking_id \in DOMAIN db.bookings
              /\ db.bookings[req'[p].booking_id].status = "Cancelled")
             => db'.history = db.history]_vars

\* the booking found Confirmed was cancelled by one request and cancelled again
\* by the other: one CREATED and one CANCELLED entry
C29_Witness ==
  /\ db0.bookings # <<>>
  /\ db0.bookings[1].status = "Confirmed"
  /\ \A p \in Procs :
       /\ req[p].op = "cancel" /\ req[p].booking_id = 1
       /\ pc[p] = "done" /\ result[p].status = 200
  /\ db.bookings[1].status = "Cancelled"
  /\ Cardinality(Creations(db, 1)) = 1
  /\ Cardinality(Cancellations(db, 1)) = 1
  /\ Len(db.history) = 2

\* ---- C30: the Transaction ledger and the BookingHistory log are append-only:
\* no CreateBooking, CancelBooking or read operation modifies or deletes a
\* committed Transaction or BookingHistory row.
IsPrefix(s, t) == Len(s) <= Len(t) /\ SubSeq(t, 1, Len(s)) = s

C30_AppendOnly ==
  [][/\ IsPrefix(db.transactions, db'.transactions)
     /\ IsPrefix(db.history, db'.history)
     /\ \A p \in Procs :
          (lock = p /\ lock' = p) =>
             /\ IsPrefix(db.transactions, tx'[p].transactions)
             /\ IsPrefix(db.history, tx'[p].history)
     /\ \A p \in Procs :
          (req'[p].op \in {"search", "detail", "pricing"} /\ pc'[p] # pc[p]) =>
             db' = db /\ tx' = tx]_vars

\* the booking in the store was cancelled with a refund and a quote was
\* answered: the payment and the CREATED entry stand as they were, before the
\* refund and the CANCELLED entry
C30_Witness ==
  \E p, q \in Procs :
    /\ req[p].op = "cancel" /\ pc[p] = "done" /\ result[p].status = 200
    /\ result[p].refund_amount > 0
    /\ req[q].op = "pricing" /\ pc[q] = "done" /\ result[q].status = 200
    /\ Len(db0.transactions) = 1 /\ Len(db0.history) = 1
    /\ Len(db.transactions) = 2 /\ Len(db.history) = 2
    /\ db.transactions[1] = db0.transactions[1]
    /\ db.history[1] = db0.history[1]

\* ---- C31: searchFlights, getFlightDetail, quotePrice and get_user_bookings
\* are read-only: they never change an inventory, booking, passenger,
\* transaction or history row, and they never take the write lock of
\* CreateBooking and CancelBooking.
QueryOps == {"search", "detail", "pricing", "bookings"}

C31_ReadOnly ==
  /\ [](\A p \in Procs :
          req[p].op \in QueryOps => lock # p /\ tx[p] = NoTx)
  /\ [][\A p \in Procs :
          (req'[p].op \in QueryOps /\ pc'[p] # pc[p]) =>
             /\ db' = db /\ tx' = tx /\ lock' = lock
             /\ pc[p] = "begin" \/ req'[p] = req[p]]_vars

\* the bookings of user 1 were listed while a booking held the write lock
\* with its writes pending
C31_Witness ==
  \E p, q \in Procs :
    /\ req[p].op = "bookings" /\ req[p].user_id = 1
    /\ pc[p] = "done" /\ result[p].status = 200
    /\ result[p].count = Len(db.bookings) /\ result[p].count > 0
    /\ lock = q /\ req[q].op = "create" /\ tx[q] # db

\* ---- C32: no partial seat decrement or increment is ever visible: a reader
\* (search, detail, quote) or another transaction never observes an
\* available_seats value written by a transaction that has not committed or
\* that is later rolled back.
C32_NoDirtyRead ==
  [][/\ \A p \in Procs :
          /\ (pc[p] \in {"d_seats", "q_seat"} /\ result'[p].status = 200) =>
                result'[p].available_seats =
                  db.seats[Row(req[p].flight_id, req[p].seat_class)].available_seats
          /\ (pc[p] = "d_seats" /\ result'[p].status = 200) =>
                \A s \in DOMAIN result'[p].seats_available :
                   result'[p].seats_available[s] = db.seats[s].available_seats
          /\ (pc[p] = "s_seat" /\ pc'[p] = "s_seat"
              /\ Len(loc'[p].flights) > Len(loc[p].flights)) =>
                LET x == loc'[p].flights[Len(loc'[p].flights)]
                IN  x.available_seats =
                      db.seats[Row(x.flight_id, req[p].seat_class)].available_seats
          /\ (pc[p] = "begin" /\ pc'[p] \in {"c_flight", "x_booking"}) =>
                tx'[p] = db
          /\ (pc[p] = "c_seat" /\ pc'[p] = "c_check") =>
                loc'[p].available_seats = db.seats[RowOf(req[p])].available_seats
          /\ (Finishing(p) /\ result'[p].status # 200) => db' = db
     /\ db' # db => \E p \in Procs : Committing(p)]_vars

\* a booking wrote its seat decrement and was rolled back; the quote of the
\* same row shows the committed count
C32_Witness ==
  \E p, q \in Procs :
    /\ req[q].op = "create" /\ pc[q] = "done"
    /\ result[q].status = 500 /\ result[q].detail = "store failure after a write"
    /\ req[p].op = "pricing" /\ pc[p] = "done" /\ result[p].status = 200
    /\ RowOf(req[p]) = RowOf(req[q])
    /\ result[p].available_seats = db0.seats[RowOf(req[p])].available_seats
    /\ db = db0

\* ---- C33: when several CancelBooking requests for the same Confirmed booking
\* run concurrently, the booking goes from Confirmed to Cancelled exactly once:
\* one request computes the refund and restores the inventory, the inventory
\* grows by seats_booked at most once, at most one refund Transaction and one
\* CANCELLED history entry exist, and every other request that completes
\* returns the zero-refund short-circuit.
Cancelled200(b) ==
  {p \in Procs : /\ req[p].op = "cancel" /\ req[p].booking_id = b
                 /\ pc[p] = "done" /\ result[p].status = 200}

C33_CancelOnce ==
  /\ [](\A b \in DOMAIN db.bookings :
          /\ Cardinality(Refunds(db, b)) <= 1
          /\ Cardinality(Cancellations(db, b)) <= 1
          /\ Cardinality({p \in Cancelled200(b) : result[p].refund_amount > 0}) <= 1
          /\ Cancelled200(b) # {} =>
                /\ db.bookings[b].status = "Cancelled"
                /\ Cardinality(Cancellations(db, b)) = 1)
  /\ [][\A p \in Procs :
          (/\ req'[p].op = "cancel" /\ Finishing(p) /\ result'[p].status = 200) =>
             LET b == req'[p].booking_id
                 r == RowOf(db.bookings[b])
             IN  \/ /\ Committing(p)
                    /\ db.bookings[b].status = "Confirmed"
                    /\ db'.bookings[b].status = "Cancelled"
                    /\ db'.seats[r].available_seats - db.seats[r].available_seats
                         \in 0..db.bookings[b].seats_booked
                    /\ \A q \in Procs \ {p} :
                          q \in Cancelled200(b) =>
                             /\ result[q].refund_percentage = 0
                             /\ result[q].refund_amount = 0
                 \/ /\ pc[p] = "x_booking"
                    /\ db.bookings[b].status = "Cancelled"
                    /\ result'[p].refund_percentage = 0
                    /\ result'[p].refund_amount = 0
                    /\ db' = db]_vars

\* both requests cancelled the booking found Confirmed: one was refunded, the
\* other got the short-circuit, and there is one refund and one CANCELLED entry
C33_Witness ==
  /\ db0.bookings # <<>>
  /\ db0.bookings[1].status = "Confirmed"
  /\ Cancelled200(1) = Procs
  /\ \E p \in Procs :
       /\ result[p].refund_amount > 0
       /\ \A q \in Procs \ {p} :
            result[q].refund_percentage = 0 /\ result[q].refund_amount = 0
  /\ Cardinality(Refunds(db, 1)) = 1
  /\ Cardinality(Cancellations(db, 1)) = 1

\* ---- C34: started from a store in which every inventory row has
\* available_seats = initial_inventory and nothing is booked, every reachable
\* store has, for every row, available_seats plus the seats_booked of the row's
\* Confirmed bookings equal to initial_inventory; so the clamp of a cancellation
\* never discards seats and a cancellation returns exactly seats_booked.
RECURSIVE ConfirmedSeats(_, _, _)
ConfirmedSeats(store, r, n) ==
  IF n = 0 THEN 0
  ELSE ConfirmedSeats(store, r, n - 1)
         + (IF /\ store.bookings[n].status = "Confirmed"
               /\ RowOf(store.bookings[n]) = r
            THEN store.bookings[n].seats_booked ELSE 0)

Conserved(store) ==
  \A r \in DOMAIN store.seats :
    store.seats[r].available_seats + ConfirmedSeats(store, r, Len(store.bookings))
      = store.seats[r].initial_inventory

C34_SeatsConserved ==
  /\ [](Conserved(db0) /\ db0.bookings = <<>> /\ Conserved(db))
  /\ [][\A p \in Procs :
          /\ (pc[p] = "x_seat" /\ pc'[p] = "x_upd_booking") =>
                LET r == Row(loc[p].flight_id, loc[p].seat_class) IN
                /\ tx[p].seats[r].available_seats + loc[p].seats_booked
                     <= tx[p].seats[r].initial_inventory
                /\ loc'[p].new_available
                     = tx[p].seats[r].available_seats + loc[p].seats_booked
          /\ (req[p].op = "cancel" /\ Committing(p)) =>
                LET b == db.bookings[req[p].booking_id] IN
                db'.seats[RowOf(b)].available_seats
                  = db.seats[RowOf(b)].available_seats + b.seats_booked]_vars

\* a booking of the whole Economy row of flight 1 was made and then cancelled,
\* and the row is back at its initial inventory
C34_Witness ==
  /\ db0 = EmptyStore(2)
  /\ Len(db.bookings) = 1
  /\ db.bookings[1].status = "Cancelled"
  /\ db.bookings[1].seats_booked = 2
  /\ RowOf(db.bookings[1]) = <<1, "Economy">>
  /\ db.seats[<<1, "Economy">>].available_seats = 2
  /\ \E p \in Procs : req[p].op = "cancel" /\ pc[p] = "done" /\ result[p].status = 200

\* ---- C35: every booking has exactly one positive Transaction, whose amount is
\* the booking's final_price, and at most one negative (refund) Transaction; a
\* refund Transaction exists only if the booking is Cancelled, and the amounts
\* of a booking's Transactions sum to a value between 0 and final_price.
Payments(store, b) ==
  {i \in DOMAIN store.transactions :
     store.transactions[i].booking_id = b /\ store.transactions[i].amount > 0}

RECURSIVE AmountSum(_, _, _)
AmountSum(store, b, n) ==
  IF n = 0 THEN 0
  ELSE AmountSum(store, b, n - 1)
         + (IF store.transactions[n].booking_id = b
            THEN store.transactions[n].amount ELSE 0)

C35_TransactionsPerBooking ==
  /\ \A i \in DOMAIN db.transactions :
        db.transactions[i].booking_id \in DOMAIN db.bookings
  /\ \A b \in DOMAIN db.bookings :
        /\ Cardinality(Payments(db, b)) = 1
        /\ \A i \in Payments(db, b) :
              db.transactions[i].amount = db.bookings[b].final_price
        /\ Cardinality(Refunds(db, b)) <= 1
        /\ \A i \in Refunds(db, b) : db.transactions[i].amount < 0
        /\ Refunds(db, b) # {} => db.bookings[b].status = "Cancelled"
        /\ AmountSum(db, b, Len(db.transactions)) >= 0
        /\ AmountSum(db, b, Len(db.transactions)) <= db.bookings[b].final_price

\* a two-seat booking made by a request was paid for and then cancelled with
\* half of its price refunded
C35_Witness ==
  \E b \in DOMAIN db.bookings :
    /\ b \notin DOMAIN db0.bookings
    /\ db.bookings[b].seats_booked = 2
    /\ db.bookings[b].status = "Cancelled"
    /\ Cardinality(Payments(db, b)) = 1
    /\ Cardinality(Refunds(db, b)) = 1
    /\ AmountSum(db, b, Len(db.transactions)) > 0
    /\ AmountSum(db, b, Len(db.transactions)) < db.bookings[b].final_price

\* ---- C36: whenever CreateBooking or CancelBooking returns, by a commit, a
\* NotFound, a Conflict, an Internal error or the short-circuit for a booking
\* that is already Cancelled (a return with neither commit nor rollback), the
\* write lock of its connection has been released, so that a later request is
\* never kept waiting by a request that has finished.
WriteOps == {"create", "cancel"}

C36_LockReleased ==
  /\ [](/\ \A p \in Procs : pc[p] = "done" => (lock # p /\ tx[p] = NoTx)
        /\ lock # 0 => pc[lock] \notin {"idle", "begin", "done"})
  /\ [][\A p \in Procs :
          /\ (req'[p].op \in WriteOps /\ Finishing(p)) =>
                /\ lock' # p
                /\ tx'[p] = NoTx
                /\ lock = p => lock' = 0
          /\ (/\ pc[p] = "begin" /\ Finishing(p)
              /\ result'[p].detail = "database is locked") =>
                /\ lock \in Procs \ {p}
                /\ pc[lock] \notin {"idle", "begin", "done"}]_vars

\* a cancellation of a booking that was already Cancelled has returned through
\* the short-circuit, and the next request holds the write lock
C36_Witness ==
  \E p, q \in Procs :
    /\ p # q
    /\ db0.bookings # <<>>
    /\ db0.bookings[1].status = "Cancelled"
    /\ req[p] = CancelRequest(1)
    /\ pc[p] = "done" /\ result[p].status = 200
    /\ result[p].refund_percentage = 0 /\ result[p].refund_amount = 0
    /\ lock = q
    /\ InTransaction(q)

\* ---- C37: when the stored departure_time of the flight cannot be parsed, the
\* refund percentage is 0 rather than an error: CancelBooking of a Confirmed
\* booking on such a flight succeeds, marks it Cancelled, restores the
\* inventory and records no refund Transaction.
OnUnparsedFlight(p) ==
  /\ req[p].op = "cancel"
  /\ req[p].booking_id \in DOMAIN db.bookings
  /\ db.bookings[req[p].booking_id].flight_id \in FlightIds
  /\ ~Parses(Flights[db.bookings[req[p].booking_id].flight_id].departure_time)

C37_UnparsedDeparture ==
  [][\A p \in Procs :
       OnUnparsedFlight(p) =>
          LET b == req[p].booking_id
              r == RowOf(db.bookings[b])
          IN /\ (pc[p] = "x_flight" /\ pc'[p] # pc[p]) =>
                   /\ pc'[p] = "x_seat"
                   /\ loc'[p].refund_percentage = 0
                   /\ loc'[p].refund_amount = 0
             /\ (pc[p] \in {"x_flight", "x_seat"} /\ Finishing(p)) =>
                   result'[p].detail \in {"store failure", "store failure after a write"}
             /\ (pc[p] = "commit" /\ pc'[p] = "done"
                   /\ result'[p].detail \notin
                        {"store failure", "store failure after a write"}) =>
                   /\ result'[p].status = 200
                   /\ result'[p].refund_percentage = 0
                   /\ result'[p].refund_amount = 0
                   /\ db.bookings[b].status = "Confirmed"
                   /\ db'.bookings[b].status = "Cancelled"
                   /\ db'.seats[r].available_seats =
                        Min(db.seats[r].available_seats + db.bookings[b].seats_booked,
                            db.seats[r].initial_inventory)
                   /\ db'.transactions = db.transactions
                   /\ Refunds(db', b) = {}]_vars

\* the booking on flight 7 was cancelled: no refund, its seat is free again
C37_Witness ==
  \E p \in Procs :
    /\ req[p] = CancelRequest(1)
    /\ pc[p] = "done" /\ result[p].status = 200
    /\ result[p].refund_percentage = 0 /\ result[p].refund_amount = 0
    /\ db0 = UnparsedStore
    /\ ~Parses(Flights[db.bookings[1].flight_id].departure_time)
    /\ db.bookings[1].status = "Cancelled"
    /\ db.seats[<<7, "Economy">>].available_seats = 1
    /\ db.transactions = db0.transactions
    /\ Cardinality(Cancellations(db, 1)) = 1

\* ---- C38: the refund percentage is defined for every number of hours to
\* departure, the boundaries included: exactly 72 hours give 75 (not 100),
\* exactly 24 hours give 75, exactly 2 hours give 50, and any negative number of
\* hours (a flight that has departed) gives 0.
C38_RefundBoundaries ==
  LET n == probe.num
      d == probe.den
      v == probe.value
  IN /\ v \in {0, 50, 75, 100}
     /\ n = 72 * d => (v = 75 /\ v # 100)
     /\ n = 24 * d => v = 75
     /\ n = 2 * d => v = 50
     /\ n < 0 => v = 0

\* exactly seventy-two hours before departure the refund is 75
C38_Witness ==
  /\ probe.den = TicksPerHour
  /\ probe.num = 72 * TicksPerHour
  /\ probe.value = 75
  /\ \E n \in ProbeHours : n < 0

\* ---- C39: CreateBooking changes available_seats only on the row it books and
\* CancelBooking only on the row of the booking it cancels; CancelBooking
\* changes only the status of that booking (its flight_id, seat_class,
\* seats_booked and final_price stay as they are); neither changes another
\* booking, another inventory row or a flight (the Flights table is written by
\* no handler: it is the constant Flights here).
OtherSeatsKept(r) ==
  /\ DOMAIN db'.seats = DOMAIN db.seats
  /\ \A s \in DOMAIN db.seats :
       /\ s # r => db'.seats[s] = db.seats[s]
       /\ db'.seats[s].initial_inventory = db.seats[s].initial_inventory
       /\ db'.seats[s].price_multiplier = db.seats[s].price_multiplier

C39_Frame ==
  [][/\ db' # db => \E p \in Procs : Committing(p)
     /\ \A p \in Procs :
          /\ (req[p].op = "create" /\ Committing(p)) =>
                /\ OtherSeatsKept(RowOf(req[p]))
                /\ Len(db'.bookings) = Len(db.bookings) + 1
                /\ SubSeq(db'.bookings, 1, Len(db.bookings)) = db.bookings
          /\ (req[p].op = "cancel" /\ Committing(p)) =>
                LET b == req[p].booking_id IN
                /\ OtherSeatsKept(RowOf(db.bookings[b]))
                /\ db'.bookings = [db.bookings EXCEPT ![b].status = "Cancelled"]
                /\ db'.bookings[b].status # db.bookings[b].status]_vars

\* next to the earlier booking on flight 1, since cancelled, a booking on
\* flight 2 was made: each changed its own row and nothing of the other
C39_Witness ==
  \E p, q \in Procs :
    /\ req[p].op = "create" /\ req[p].flight_id = 2 /\ result[p].status = 200
    /\ req[q] = CancelRequest(1) /\ result[q].status = 200
    /\ db0 = LegacyStore(0, "Confirmed")
    /\ Len(db.bookings) = 2
    /\ db.bookings[1] = [db0.bookings[1] EXCEPT !.status = "Cancelled"]
    /\ db.bookings[2].status = "Confirmed"
    /\ db.seats[<<1, "Business">>] = db0.seats[<<1, "Business">>]
    /\ db.seats[<<1, "Economy">>].available_seats = 2
    /\ db.seats[<<2, "Economy">>].available_seats = 0

====
